---- MODULE Spec2Model ----
(***************************************************************************)
(* A model of the AutoRec capture pipeline: the auto-recorder (the capture *)
(* loop's write_audio/close and the writer thread that owns the WAV file   *)
(* and the file ordinal), the VU meter's on/off window, the main loop of   *)
(* the autorecord binary, and the audio sources' read_chunk.               *)
(*                                                                         *)
(* Time is counted in whole units; min_length, silence_duration and        *)
(* update_interval are numbers of those units.                             *)
(***************************************************************************)
EXTENDS Integers, Sequences, FiniteSets, TLC

\* ------------------------------------------------------------- bounds
\* write_audio calls the capture loop makes in one run of Spec
MaxCalls == 3
\* clock values 0..MaxTime in Spec
MaxTime == 1
\* recording files that may exist at process start carry ordinals 1..MaxPre
MaxPre == 2
\* frames in one audio chunk
FramesPerChunk == 2
\* I/O errors (create, write, finalize, remove) injected in one run
MaxIoErrors == 1
\* chunks fed to the VU meter in one run of SpecVU
MaxVuChunks == 4
\* silence_duration ranges over 0..MaxSilence, update_interval over
\* 1..MaxInterval in SpecVU
MaxSilence == 3
MaxInterval == 2
\* SpecAuto feeds 0 or AutoOn units of signal, then AutoOff units of silence,
\* with silence_duration in 1..AutoSilence and min_length = AutoMinLength
AutoOn == 5
AutoOff == 15
AutoSilence == 10
AutoMinLength == 10
\* SpecStream: read_chunk asks for ChunkFrames frames; a buffer or pipe holds at
\* most MaxBuffer frames; the input file has 0..MaxFileLen one-frame packets
ChunkFrames == 2
MaxBuffer == 3
MaxFileLen == 3
\* capture threads / capture children running at once in SpecStream
MaxLive == 2
\* SpecLimiter: report_success calls counted up to MaxSuccessCount; a limiter
\* built by RateLimiter::new may have max_interval = OddMaxFactor x base
MaxSuccessCount == 12
OddMaxFactor == 3
\* items a request loop works through
MaxItems == 3
\* SpecFinder: a file of FileChunks RMS chunks with at most MaxQuiet quiet
\* ones, levels QuietAbove and MusicAbove dB over digital silence, up to
\* MaxLeadIn chunks of lead-in and of lead-out, up to MaxTracks tracks a side
FileChunks == 12
MaxQuiet == 3
QuietAbove == 10
MusicAbove == 30
MaxLeadIn == 1
MaxTracks == 3

\* ---------------------------------------------------- program constants
\* channels of the stream and of the recorder (built-in default)
Channels == 2
\* the VU meter's built-in defaults: max_db, db_range, off_threshold
max_db == 0
db_range == 90
off_threshold == -60
\* an RMS level above the threshold
LoudDb == -30
\* Option::None of current_file / of recording_start_time
NoFile == 0
NoTime == -1
\* a file whose 44-byte header was never completely written
NoHeader == -1

Formats == {"S16", "S32"}

\* SampleFormat::bytes_per_sample
bytes_per_sample(fmt) == IF fmt = "S16" THEN 2 ELSE 4

\* min_length ranges over 0..MaxMinLength in Spec
MaxMinLength == MaxTime

MaxOrdinal == MaxPre + MaxCalls + 1
Ordinals == 1..MaxOrdinal

VARIABLES
    \* --- AdaptivePauseDetector (pause_detector.rs)
    pd_state,               \* "none" | "Training" | "Active"
    pd_noise_floor_db,         \* learned in training
    pause_threshold_db,     \* RMS must be below this
    pause_duration_ms,      \* for this long
    threshold_override,     \* Option<f32>
    pause_duration_override, \* Option<u32>
    song_durations,         \* the lengths of the songs so far, in seconds
    timeouts,               \* pause timeouts so far
    detector_resets,        \* calls of reset so far
    pd_last,                \* the detector's last step
    \* --- SongDetectScheduler (song_detect.rs)
    sd_pc,                  \* "none" | "run"
    pcm_buf,                \* seconds of audio in the ring buffer
    since_detect,           \* last_detect.elapsed(), up to the interval
    sd_result,              \* result: the Option, and the reset count at its detection's launch
    detecting,              \* Arc<Mutex<bool>>
    ever_attempted,         \* Arc<Mutex<bool>>
    det_thread,             \* the running detection thread: the reset count at its launch
    resets,                 \* calls of reset so far
    \* --- directory mode of cue_creator and boundary_finder
    dm_pc,                  \* "none" | "loop" | "done" | "exited"
    tool,                   \* the binary that runs
    files_to_process,       \* per file of the directory: its state on disk
    next_file,              \* the position of main's loop
    processed,              \* the files process_file went through
    ended_by,               \* how a process that ended early did: "exit(1)", "panic"
    \* --- album resolver (lookup.rs)
    fb_pc,                  \* "none" | "ready" | "done" | "unmatched"
    backends,               \* the names of the backends, in configured order
    side_found,             \* per backend: what its find_album_side gives
    mb_search,              \* what musicbrainz::search_release gives
    fb_result,                 \* the AlbumSideResult returned
    \* --- side assignment (lookup.rs, album_finder.rs)
    sa_pc,                  \* "none" | "ready" | "done"
    assigner,               \* the function that made the assignment
    files,                  \* the recorded files of one album
    sides,                  \* the sides of the release found
    assignments,            \* the (file, side, score) triples, in the order made
    \* --- AudioRecorder (shared between capture loop and writer thread)
    recording,              \* Arc<Mutex<bool>>
    current_file,           \* Arc<Mutex<Option<String>>>: the ordinal N of <stem>.<N>.wav
    recording_start_time,   \* Arc<Mutex<Option<Instant>>>
    next_file_number,       \* Arc<Mutex<usize>>
    queue,                  \* the mpsc channel of RecorderCommand
    sender_dropped,         \* close() dropped the Sender
    min_length,             \* constructor argument
    format,                 \* constructor argument
    \* --- writer thread
    wav_writer,             \* recording_worker's local Option<WavWriter>
    workerPc,               \* "run" | "exited"
    \* --- capture loop
    mainPc,                 \* "run" | "closing" | "closed"
    calls,                  \* write_audio calls made so far (the chunk number)
    \* --- environment
    disk,                   \* ordinal -> the file <stem>.<N>.wav
    existing,               \* ordinals whose file existed at process start
    now,                    \* the clock
    \* --- history of the run
    opened,                 \* ordinals the writer opened for writing
    everOn,                 \* some write_audio call had is_on = true
    ioErrors,               \* I/O errors injected so far
    last,                   \* what the writer thread's last step did
    \* --- VUMeter
    update_interval,        \* constructor argument
    silence_duration,       \* constructor argument
    history_size,           \* computed by VUMeter::new
    db_history,             \* per channel: the window of RMS values
    peak_history,           \* per channel: the window of peak values
    clip_history,           \* per channel: the window of clipping flags
    metrics,                \* per channel: what update_history returned last
    \* --- history of the run
    fed,                    \* per channel: every RMS value fed so far
    prev_on,                \* per channel: is_on after the previous chunk
    \* --- the input of the autorecord main loop in SpecAuto
    onLen,                  \* chunks of signal the source delivers first
    offLen,                 \* chunks of silence that follow
    \* --- an audio input stream (audio_stream.rs), SpecStream
    variant,                \* "pipewire", "pwpipe", "alsa" or "file"
    active,                 \* PipeWireInputStream.active / FileInputStream.active
    process,                \* PwPipe/Alsa: "none" (None), "running", "exited" child
    thread_handle,          \* PipeWire: "none" (None), "running", "exited" thread
    buffer,                 \* frames held in buffer (PipeWire, file)
    avail,                  \* frames in the child's pipe / packets left in the file
    file_len,               \* packets in the input file
    stPc,                   \* "idle", "reading" (file read_chunk), "joining" (stop)
    rd,                     \* what the last read_chunk call met and returned
    quit_flag,              \* PipeWireInputStream.quit_flag
    live,                   \* capture threads / capture children now running
    \* --- RateLimiter (rate_limiter.rs), SpecLimiter; times in milliseconds
    last_request,           \* "None" or "Some": Option<Instant>
    elapsed,                \* last_request.elapsed(), while last_request is Some
    current_interval,
    base_interval,
    max_interval,
    success_count,
    successes_to_reduce,
    rl_last,                \* what the limiter's last call met and did
    \* --- the clients of the external services, SpecClients
    client,                 \* which request loop runs: see Clients
    cl_pc,                  \* its position: "loop", "sent", "retry", "retried"
    todo,                   \* items (segments, songs, releases) still to do
    req_gap,                \* time since the last outbound request, or NoTime
    waited,                 \* wait_if_needed was called since that request
    cl_last,                \* the last request: see ClientStep
    \* --- boundary_finder (bin), SpecFinder
    bf_pc,                  \* "none", "ready" (before pass 3) or "done"
    rms_values,             \* one RMS level (dB) per chunk of the file
    music_start_idx,        \* first chunk at or after groove-in
    music_end_idx,          \* first chunk at or after groove-out
    noise_floor,            \* the estimated noise floor (dB)
    min_song_duration,      \* --min-song, seconds
    use_guided_detection,
    expected_tracks,        \* the side's tracks: length and expected start
    valleys                 \* the boundaries pass 3 returned

recVars == <<recording, current_file, recording_start_time, next_file_number,
             queue, sender_dropped, min_length, format, wav_writer, workerPc,
             mainPc, calls, disk, existing, now, opened, everOn, ioErrors, last>>

vuVars == <<update_interval, silence_duration, history_size, db_history,
            peak_history, clip_history, metrics, fed, prev_on>>

inVars == <<onLen, offLen>>

stVars == <<variant, active, process, thread_handle, buffer, avail, file_len,
            stPc, rd, quit_flag, live>>

rlVars == <<last_request, elapsed, current_interval, base_interval, max_interval,
            success_count, successes_to_reduce, rl_last>>

\* the capture side and the offline (metadata, analysis) side of the program
captureVars == <<recVars, vuVars, inVars, stVars>>
clVars == <<client, cl_pc, todo, req_gap, waited, cl_last>>

bfVars == <<bf_pc, rms_values, music_start_idx, music_end_idx, noise_floor,
            min_song_duration, use_guided_detection, expected_tracks, valleys>>

\* side assignment
saVars == <<sa_pc, assigner, files, sides, assignments>>

\* the other offline tools
\* album resolver
fbVars == <<fb_pc, backends, side_found, mb_search, fb_result>>

\* directory mode
dmVars == <<dm_pc, tool, files_to_process, next_file, processed, ended_by>>

\* song detect scheduler
sdVars == <<sd_pc, pcm_buf, since_detect, sd_result, detecting, ever_attempted,
            det_thread, resets>>

\* adaptive pause detector
pdVars == <<pd_state, pd_noise_floor_db, pause_threshold_db, pause_duration_ms,
            threshold_override, pause_duration_override, song_durations,
            timeouts, detector_resets, pd_last>>

auxVars == <<saVars, fbVars, dmVars, sdVars, pdVars>>

svcVars == <<rlVars, clVars, bfVars, auxVars>>

vars == <<captureVars, svcVars>>

\* ------------------------------------------------------------ helpers
\* first_t, last_t: when the first and the last sample the writer recorded were
\* passed to write_audio (history kept with the writer, not program state)
NoWriter == [open |-> FALSE, file |-> NoFile, data_size |-> 0,
             first_t |-> NoTime, last_t |-> NoTime]
NoFileOnDisk == [exists |-> FALSE, hdr |-> NoHeader, data |-> <<>>]
OldFile == [exists |-> TRUE, hdr |-> 0, data |-> <<>>]

\* a RecorderCommand; t is the time at which the capture loop sent it
Cmd(c, s, t) == [cmd |-> c, samples |-> s, t |-> t]

\* a sample is tagged <<chunk, frame, channel>>; <<0,0,0>> is a padded zero
Chunk(id) == [ch \in 1..Channels |-> [i \in 1..FramesPerChunk |-> <<id, i, ch>>]]

RECURSIVE Flatten(_)
Flatten(ss) == IF ss = <<>> THEN <<>> ELSE Head(ss) \o Flatten(Tail(ss))

\* a variant that writes channel after channel instead of frame after frame
InterleavePlanar(audio_data) == Flatten(audio_data)

\* write_audio's interleave loop: frame by frame, channel by channel
Interleave(audio_data) ==
    LET frame_count == Len(audio_data[1])
        Frame(i) == [ch \in 1..Channels |->
                       IF ch <= Len(audio_data) /\ i <= Len(audio_data[ch])
                       THEN audio_data[ch][i] ELSE <<0, 0, 0>>]
    IN Flatten([i \in 1..frame_count |-> Frame(i)])

\* AudioRecorder::new: the first ordinal, from 1, whose file does not exist
RECURSIVE FirstFree(_, _)
FirstFree(ex, n) == IF n \in ex THEN FirstFree(ex, n + 1) ELSE n

\* the data-size field of the header (a u32; the byte counts of this model
\* stay far below 2^32, so the cast keeps the value)
HeaderField(data_size) == data_size

\* actual data bytes of a file
DataBytes(f) == Len(f.data) * bytes_per_sample(format)

\* time between the first and the last sample recorded by a writer
Span(w) == IF w.first_t = NoTime THEN 0 ELSE w.last_t - w.first_t

\* the record of a writer-thread step: the command's outcome, the file it
\* concerned, the measured duration and sample span of a closed recording,
\* whether finalize and remove_file succeeded, the ordinal before the step
Step(op, file, dur, fin, prev) ==
    [op |-> op, file |-> file, dur |-> dur, fin |-> fin, prev |-> prev,
     span |-> 0, rm |-> TRUE]
StopStep(op, file, dur, fin, prev, span, rm) ==
    [op |-> op, file |-> file, dur |-> dur, fin |-> fin, prev |-> prev,
     span |-> span, rm |-> rm]

\* ---------------------------------------------------------------- Init
InitRecorder(ex, ml, fmt) ==
    /\ existing = ex
    /\ min_length = ml
    /\ format = fmt
    /\ recording = FALSE
    /\ current_file = NoFile
    /\ recording_start_time = NoTime
    /\ next_file_number = FirstFree(existing, 1)
    /\ queue = <<>>
    /\ sender_dropped = FALSE
    /\ wav_writer = NoWriter
    /\ workerPc = "run"
    /\ mainPc = "run"
    /\ calls = 0
    /\ disk = [n \in Ordinals |-> IF n \in existing THEN OldFile ELSE NoFileOnDisk]
    /\ now = 0
    /\ opened = {}
    /\ everOn = FALSE
    /\ ioErrors = 0
    /\ last = Step("init", NoFile, 0, TRUE, next_file_number)

\* ------------------------------------------------------------- VU meter
min_db == max_db - db_range

\* what one channel of one chunk measures: RMS, peak, clipping
Quiet == [db |-> min_db, peak |-> min_db, clip |-> FALSE]
AtThreshold == [db |-> off_threshold, peak |-> off_threshold, clip |-> FALSE]
Loud == [db |-> LoudDb, peak |-> max_db, clip |-> TRUE]
ChannelInputs == {Quiet, AtThreshold, Loud}

\* VUMeter::new: (silence_duration / update_interval) as usize
HistorySize(sd, ui) == sd \div ui

InitVU(sd, ui) ==
    /\ update_interval = ui
    /\ silence_duration = sd
    /\ history_size = HistorySize(sd, ui)
    /\ db_history = [ch \in 1..Channels |-> <<>>]
    /\ peak_history = [ch \in 1..Channels |-> <<>>]
    /\ clip_history = [ch \in 1..Channels |-> <<>>]
    /\ metrics = [ch \in 1..Channels |->
                   [max_db |-> min_db, max_peak_db |-> min_db,
                    is_on |-> FALSE, has_clipped |-> FALSE]]
    /\ fed = [ch \in 1..Channels |-> <<>>]
    /\ prev_on = [ch \in 1..Channels |-> FALSE]

\* a variant that drops the oldest value one chunk early
KeepLastNEarly(h) == IF Len(h) >= history_size THEN Tail(h) ELSE h

\* "Keep only last N values": one pop_front when the window is over-full
KeepLastN(h) == IF Len(h) > history_size THEN Tail(h) ELSE h

\* a variant that counts a value equal to the threshold as on
AnyAtOrAboveThreshold(h) == \E i \in 1..Len(h) : h[i] >= off_threshold

\* .iter().any(|&db| db > self.off_threshold)
AnyAboveThreshold(h) == \E i \in 1..Len(h) : h[i] > off_threshold

RECURSIVE FoldMax(_, _)
FoldMax(h, acc) == IF h = <<>> THEN acc
                   ELSE FoldMax(Tail(h), IF Head(h) > acc THEN Head(h) ELSE acc)

\* update_history(channel, db_value, peak_db_value, is_clipping): the new
\* windows of the channel and the returned tuple
UpdateHistory(ch, in) ==
    LET dbh == KeepLastN(Append(db_history[ch], in.db))
        pkh == KeepLastN(Append(peak_history[ch], in.peak))
        clh == KeepLastN(Append(clip_history[ch], in.clip))
    IN [db |-> dbh, peak |-> pkh, clip |-> clh,
        ret |-> [max_db |-> FoldMax(dbh, min_db),
                 max_peak_db |-> FoldMax(pkh, min_db),
                 is_on |-> AnyAboveThreshold(dbh),
                 has_clipped |-> \E i \in 1..Len(clh) : clh[i]]]

\* process_audio_chunk: update_history for every channel of the chunk
process_audio_chunk(levels) ==
    LET upd == [ch \in 1..Channels |-> UpdateHistory(ch, levels[ch])] IN
    /\ db_history' = [ch \in 1..Channels |-> upd[ch].db]
    /\ peak_history' = [ch \in 1..Channels |-> upd[ch].peak]
    /\ clip_history' = [ch \in 1..Channels |-> upd[ch].clip]
    /\ metrics' = [ch \in 1..Channels |-> upd[ch].ret]
    /\ fed' = [ch \in 1..Channels |-> Append(fed[ch], levels[ch].db)]
    /\ prev_on' = [ch \in 1..Channels |-> metrics[ch].is_on]
    /\ UNCHANGED <<update_interval, silence_duration, history_size>>

\* one chunk of arbitrary levels through the meter
ProcessChunk ==
    /\ Len(fed[1]) < MaxVuChunks
    /\ \E levels \in [1..Channels -> ChannelInputs] : process_audio_chunk(levels)
    /\ UNCHANGED <<recVars, inVars, stVars, svcVars>>

NoInput == onLen = 0 /\ offLen = 0

\* ---------------------------------------------------- audio input streams
Variants == {"pipewire", "pwpipe", "alsa", "file"}
Pipes == {"pwpipe", "alsa"}

\* the record of a read_chunk call: its result ("Some", "None", "pending" while
\* the call runs, "never" before the first call), whether the stream was
\* stopped when it was called, the frames it found, whether the source was at
\* its end, and the failure it met ("decode", "reopen" or "none")
ReadRecord(result, stopped, have, eof, fault) ==
    [result |-> result, stopped |-> stopped, have |-> have, eof |-> eof,
     fault |-> fault]

\* the stream as its constructor leaves it
InitStream(v, fl) ==
    /\ variant = v
    /\ active = FALSE
    /\ process = "none"
    /\ thread_handle = "none"
    /\ buffer = 0
    /\ avail = 0
    /\ file_len = fl
    /\ stPc = "idle"
    /\ rd = ReadRecord("never", FALSE, 0, FALSE, "none")
    /\ quit_flag = FALSE
    /\ live = 0

NoStream == InitStream("file", 0)

\* ------------------------------------------------------ boundary finder
\* boundary_finder (bin): levels are whole dB, times whole seconds, a score is
\* kept as 100 x the code's f64 score and a score ratio in thousandths
\* compute_rms_db's level of digital silence
FloorDb == -80
Levels == {FloorDb + QuietAbove, FloorDb + MusicAbove}

\* --chunk-ms 5000: one RMS value per 5 s
ChunkSecs == 5
\* find_song_boundaries: local-minimum radius 5 s, context 15 s, long window
\* 30 s; a music region must be longer than 10 chunks
RadiusSecs == 5
ContextSecs == 15
LongWindowSecs == 30
MinRegionChunks == 10
search_radius == RadiusSecs \div ChunkSecs
context_chunks == ContextSecs \div ChunkSecs
long_window == LongWindowSecs \div ChunkSecs
\* main: short smoothing window, never under 3 chunks
MinSmoothWindow == 3
\* defaults of --min-prominence and --min-song
MinProminenceDb == 3
MinSongSecs == 30
\* valleys must reach 5 dB under the noise floor
DepthMarginDb == 5
\* find_guided_boundaries: +-10 s around the expected position, 75 chunks of
\* context
SearchWindowSecs == 10
GuidedContext == 75

MinOf(a, b) == IF a < b THEN a ELSE b
MaxOf(a, b) == IF a > b THEN a ELSE b
\* usize::saturating_sub
SatSub(a, b) == IF a > b THEN a - b ELSE 0

\* element i of a slice, counted from 0 as in the source
At(s, i) == s[i + 1]

RECURSIVE SumRange(_, _, _)
\* s[a..b].iter().sum()
SumRange(s, a, b) == IF a >= b THEN 0 ELSE At(s, a) + SumRange(s, a + 1, b)

\* the mean of s[a..b], rounded down to a whole dB
MeanRange(s, a, b) == SumRange(s, a, b) \div (b - a)

\* timestamps[i]: position starts at 0 and grows by chunk_duration
timestamps(i) == i * ChunkSecs

\* the largest k with k * k <= n
ISqrt(n) == CHOOSE k \in 0..n : k * k <= n /\ (k + 1) * (k + 1) > n

\* smooth_rms: the moving average over window_size chunks, clipped at both
\* ends (the mean is taken on whole dB)
smooth_rms(rms, window_size) ==
    LET half == window_size \div 2
        len == Len(rms)
    IN [k \in 1..len |->
          LET i == k - 1
              start == IF i > half THEN i - half ELSE 0
              end == MinOf(i + half + 1, len)
          IN MeanRange(rms, start, end)]

\* main's smoothed curve
Smoothed(rms) == smooth_rms(rms, MinSmoothWindow)

RECURSIVE SortPairs(_)
\* a stable sort of <<key, value>> records by ascending key, as sort_by is
SortPairs(ps) ==
    IF ps = <<>> THEN <<>>
    ELSE LET front == SortPairs(SubSeq(ps, 1, Len(ps) - 1))
             e == ps[Len(ps)]
             before == SelectSeq(front, LAMBDA p : p.key <= e.key)
             after == SelectSeq(front, LAMBDA p : p.key > e.key)
         IN before \o <<e>> \o after

\* valleys.sort_by(score descending)
ByScoreDescending(vs) ==
    LET ps == SortPairs([k \in 1..Len(vs) |-> [key |-> -vs[k].score, v |-> vs[k]]])
    IN [k \in 1..Len(ps) |-> ps[k].v]

\* filtered.sort_by(position ascending)
ByPosition(vs) ==
    LET ps == SortPairs([k \in 1..Len(vs) |->
                           [key |-> vs[k].position_seconds, v |-> vs[k]]])
    IN [k \in 1..Len(ps) |-> ps[k].v]

\* scores.sort_by(ascending)
SortedScores(vs) ==
    LET ps == SortPairs([k \in 1..Len(vs) |-> [key |-> vs[k].score, v |-> vs[k]]])
    IN [k \in 1..Len(ps) |-> ps[k].key]

Valley(position_seconds, depth_db, prominence_db, width_seconds, score) ==
    [position_seconds |-> position_seconds, depth_db |-> depth_db,
     prominence_db |-> prominence_db, width_seconds |-> width_seconds,
     score |-> score]

\* smoothed_short[i] is a local minimum: nothing within search_radius is lower
IsMinimum(sm, len, i) ==
    \A j \in SatSub(i, search_radius)..MinOf(i + search_radius, len - 1) :
        j # i => ~(At(sm, j) < At(sm, i))

\* the level of the context before the valley
LeftLevel(sm, local_ref, start, i) ==
    LET left_start == IF i > context_chunks + search_radius
                      THEN i - context_chunks - search_radius ELSE start
        left_end == SatSub(i, search_radius \div 2)
    IN IF left_end > left_start THEN MeanRange(sm, left_start, left_end)
       ELSE local_ref

\* the level of the context after the valley
RightLevel(sm, local_ref, len, i) ==
    LET right_start == MinOf(i + search_radius \div 2, len - 1)
        right_end == MinOf(i + context_chunks + search_radius, len)
    IN IF right_end > right_start THEN MeanRange(sm, right_start, right_end)
       ELSE local_ref

RECURSIVE WidthStart(_, _, _, _)
\* while w_start > music_start_idx && smoothed_short[w_start - 1] < threshold
\* (twice_threshold = 2 x (current + prominence / 2))
WidthStart(sm, start, w, twice_threshold) ==
    IF w > start /\ 2 * At(sm, w - 1) < twice_threshold
    THEN WidthStart(sm, start, w - 1, twice_threshold) ELSE w

RECURSIVE WidthEnd(_, _, _, _)
\* while w_end < len - 1 && smoothed_short[w_end + 1] < threshold
WidthEnd(sm, len, w, twice_threshold) ==
    IF w < len - 1 /\ 2 * At(sm, w + 1) < twice_threshold
    THEN WidthEnd(sm, len, w + 1, twice_threshold) ELSE w

\* one pass of the candidate loop: the valley pushed for chunk i, if any
Candidate(sm, long_smoothed, start, len, i) ==
    LET current == At(sm, i)
        local_ref == At(long_smoothed, i)
        prominence == local_ref - current
        left_level == LeftLevel(sm, local_ref, start, i)
        right_level == RightLevel(sm, local_ref, len, i)
        min_dip == MinOf(left_level - current, right_level - current)
        twice_threshold == 2 * current + prominence
        w_start == WidthStart(sm, start, i, twice_threshold)
        w_end == WidthEnd(sm, len, i, twice_threshold)
        width == (w_end - w_start) * ChunkSecs
        score == min_dip * (10 + prominence) * (10 + ISqrt(100 * width))
    IN IF ~IsMinimum(sm, len, i) THEN <<>>
       ELSE IF prominence < MinProminenceDb THEN <<>>
       ELSE IF 2 * min_dip < MinProminenceDb THEN <<>>
       ELSE <<Valley(timestamps(i), current, prominence, width, score)>>

RECURSIVE Candidates(_, _, _, _, _, _)
\* for i in (music_start_idx + search_radius)..len.saturating_sub(search_radius)
Candidates(sm, long_smoothed, start, len, i, end) ==
    IF i >= end THEN <<>>
    ELSE Candidate(sm, long_smoothed, start, len, i)
         \o Candidates(sm, long_smoothed, start, len, i + 1, end)

\* |a - b|
Distance(a, b) == IF a > b THEN a - b ELSE b - a

\* a spacing test that lets every valley through
TooCloseNever(filtered, valley, min_song) == FALSE

\* an already kept valley lies less than min_song_duration_seconds away
TooClose(filtered, valley, min_song) ==
    \E k \in 1..Len(filtered) :
        Distance(filtered[k].position_seconds, valley.position_seconds) < min_song

RECURSIVE KeepApart(_, _, _, _)
\* the valleys, best score first, that are not too close to a kept one
KeepApart(vs, k, filtered, min_song) ==
    IF k > Len(vs) THEN filtered
    ELSE KeepApart(vs, k + 1,
                   IF TooClose(filtered, vs[k], min_song) THEN filtered
                   ELSE Append(filtered, vs[k]),
                   min_song)

RECURSIVE BestGap(_, _, _)
\* the largest ratio between consecutive sorted scores, in thousandths, and
\* the index under it
BestGap(scores, i, best) ==
    IF i >= Len(scores) - 1 THEN best
    ELSE LET lower == At(scores, i)
             upper == At(scores, i + 1)
             ratio == IF lower > 0 THEN (upper * 1000) \div lower ELSE 0
         IN BestGap(scores, i + 1,
                    IF lower > 0 /\ ratio > best.ratio
                    THEN [ratio |-> ratio, idx |-> i] ELSE best)

\* the score-gap filter and the depth filter, applied to two or more valleys
ScoreFiltered(filtered, noise_floor_db) ==
    IF Len(filtered) > 1
    THEN LET scores == SortedScores(filtered)
             gap == BestGap(scores, 0, [ratio |-> 0, idx |-> 0])
             kept == IF gap.ratio > 1500
                     THEN SelectSeq(filtered,
                                    LAMBDA v : v.score > At(scores, gap.idx))
                     ELSE filtered
         IN SelectSeq(kept, LAMBDA v : v.depth_db <= noise_floor_db - DepthMarginDb)
    ELSE filtered

find_song_boundaries(rms, sm, start, end, min_song, noise_floor_db) ==
    LET len == MinOf(end, Len(rms))
        long_smoothed == smooth_rms(rms, MaxOf(long_window, 3))
        found == Candidates(sm, long_smoothed, start, len, start + search_radius,
                            SatSub(len, search_radius))
    IN IF len <= start + MinRegionChunks THEN <<>>
       ELSE ScoreFiltered(
               ByPosition(KeepApart(ByScoreDescending(found), 1, <<>>, min_song)),
               noise_floor_db)

\* the tracks of a side: expected_start is the sum of the lengths before
ExpectedTracks(lengths) ==
    [k \in 1..Len(lengths) |->
        [length_seconds |-> lengths[k],
         expected_start |-> SumRange(lengths, 0, k - 1)]]

\* a boundary pushed at the expected position whatever the window holds
GuidedBoundaryUnguarded(sm, expected_pos) == <<Valley(expected_pos, FloorDb, 0, 0, 0)>>

\* the boundary pushed for one expected position, if the window holds a chunk:
\* the first chunk of the lowest level within +-search_window_seconds
GuidedBoundary(sm, expected_pos) ==
    LET window_start == expected_pos - SearchWindowSecs
        window_end == expected_pos + SearchWindowSecs
        inside == {j \in 0..(Len(sm) - 1) :
                      timestamps(j) >= window_start /\ timestamps(j) <= window_end}
    IN IF inside = {} THEN <<>>
       ELSE LET min_idx == CHOOSE j \in inside :
                              /\ \A k \in inside : At(sm, j) <= At(sm, k)
                              /\ \A k \in inside : At(sm, k) = At(sm, j) => j <= k
                min_rms == At(sm, min_idx)
                left_start == SatSub(min_idx, GuidedContext)
                left_end == min_idx
                right_start == min_idx + 1
                right_end == MinOf(min_idx + GuidedContext, Len(sm))
                left_avg == IF left_end > left_start
                            THEN MeanRange(sm, left_start, left_end) ELSE min_rms
                right_avg == IF right_end > right_start
                             THEN MeanRange(sm, right_start, right_end) ELSE min_rms
                prominence == MaxOf(MaxOf(left_avg, right_avg) - min_rms, 0)
            IN <<Valley(timestamps(min_idx), min_rms, prominence, 0,
                        prominence * 10 * 100)>>

RECURSIVE GuidedFrom(_, _, _, _)
\* for i in 1..expected_tracks.len(), tracks counted from 0
GuidedFrom(sm, tracks, i, music_start) ==
    IF i >= Len(tracks) THEN <<>>
    ELSE GuidedBoundary(sm, music_start + At(tracks, i).expected_start)
         \o GuidedFrom(sm, tracks, i + 1, music_start)

find_guided_boundaries(sm, tracks, music_start) ==
    IF Len(tracks) < 2 THEN <<>> ELSE GuidedFrom(sm, tracks, 1, music_start)

\* process_file: the music region and the file's end, in seconds
file_duration == Len(rms_values) * ChunkSecs
groove_in == timestamps(music_start_idx)
groove_out == IF music_end_idx < Len(rms_values) THEN timestamps(music_end_idx)
              ELSE file_duration

\* no file is analysed
NoFinder ==
    /\ bf_pc = "none"
    /\ rms_values = <<>>
    /\ music_start_idx = 0
    /\ music_end_idx = 0
    /\ noise_floor = FloorDb
    /\ min_song_duration = MinSongSecs
    /\ use_guided_detection = FALSE
    /\ expected_tracks = <<>>
    /\ valleys = <<>>

\* RMS curves with at most MaxQuiet quiet chunks
Curves == {f \in [1..FileChunks -> Levels] :
              Cardinality({k \in 1..FileChunks : f[k] = FloorDb + QuietAbove})
                  <= MaxQuiet}

\* track lists of 2..MaxTracks tracks, each a whole number of chunks long,
\* that add up to the music region (the guided mode's duration match)
TrackLists(chunks) ==
    {l \in UNION {[1..n -> {k * ChunkSecs : k \in 1..chunks}] : n \in 2..MaxTracks} :
        SumRange(l, 0, Len(l)) = chunks * ChunkSecs}

\* the file read and its music region found
FileAnalysed ==
    /\ bf_pc = "ready"
    /\ rms_values \in Curves
    /\ music_start_idx \in 0..MaxLeadIn
    /\ music_end_idx \in (FileChunks - MaxLeadIn)..FileChunks
    /\ valleys = <<>>

\* a file ready for pass 3 without a track list
InitAutonomous ==
    /\ FileAnalysed
    /\ use_guided_detection = FALSE
    /\ expected_tracks = <<>>
    /\ min_song_duration \in {2 * ChunkSecs, MinSongSecs}
    /\ noise_floor \in Levels

\* a file ready for pass 3 with the track list of its side
InitGuided ==
    /\ FileAnalysed
    /\ use_guided_detection = TRUE
    /\ expected_tracks \in
          {ExpectedTracks(l) : l \in TrackLists(music_end_idx - music_start_idx)}
    /\ min_song_duration = MinSongSecs
    /\ noise_floor = FloorDb + QuietAbove

\* a file ready for pass 3, autonomous or guided
InitFinder == InitAutonomous \/ InitGuided

\* a long side: LongChunks chunks of music, the whole file being the music region
LongChunks == 80
\* its last track lasts at most MaxLastTrack seconds
MaxLastTrack == 2
\* the duration match that allows guided detection, in percent
MaxErrorPercent == 3

\* process_file: error_percent <= 3.0 && side_tracks.len() >= 2
DurationMatches(lengths, music_duration) ==
    /\ Len(lengths) >= 2
    /\ Distance(SumRange(lengths, 0, Len(lengths)), music_duration) * 100
           <= MaxErrorPercent * music_duration

\* music with at most one quiet chunk
LongCurves ==
    {[k \in 1..LongChunks |-> IF k = q THEN FloorDb + QuietAbove
                                       ELSE FloorDb + MusicAbove] :
        q \in 0..LongChunks}

\* two tracks, the second a short one, that match the side's duration
LongTrackLists ==
    {l \in {<<a, b>> : a \in 1..(2 * LongChunks * ChunkSecs), b \in 1..MaxLastTrack} :
        DurationMatches(l, LongChunks * ChunkSecs)}

\* a file and the two tracks of its side
InitTwoTracks ==
    /\ FileAnalysed
    /\ use_guided_detection = TRUE
    /\ expected_tracks \in
          {ExpectedTracks(l) :
              l \in {t \in [1..2 -> {k * ChunkSecs : k \in 1..FileChunks}] :
                        t[1] + t[2] = (music_end_idx - music_start_idx) * ChunkSecs}}
    /\ min_song_duration = MinSongSecs
    /\ noise_floor = FloorDb + QuietAbove

\* a long side ready for guided detection
InitLongSide ==
    /\ bf_pc = "ready"
    /\ rms_values \in LongCurves
    /\ music_start_idx = 0
    /\ music_end_idx = LongChunks
    /\ use_guided_detection = TRUE
    /\ expected_tracks \in {ExpectedTracks(l) : l \in LongTrackLists}
    /\ min_song_duration = MinSongSecs
    /\ noise_floor = FloorDb + QuietAbove
    /\ valleys = <<>>

\* ------------------------------------------------------ side assignment
\* at most MaxFiles recorded files and MaxSides sides of the release
MaxFiles == 2
MaxSides == 2

\* the titles the fingerprinting found, "none" for a file with no song
Songs == {"none", "a", "b"}
\* the durations of the files and the total durations of the sides, in
\* seconds; a side without duration data has total_duration 0
FileDurations == {1000, 1200}
SideDurations == {0, 1000}

\* side letters in the order of group_into_sides' BTreeMap
Letters == <<"A", "B", "C", "D">>

\* the files of an album and the sides of a release
FileLists ==
    UNION {[1..n -> [song : Songs, duration : FileDurations]] : n \in 1..MaxFiles}
SideLists ==
    {l \in UNION {[1..n -> [position : 1..MaxSides, label : {"A", "B", "C", "D"},
                            title : Songs \ {"none"},
                            total_duration : SideDurations]] : n \in 1..MaxSides} :
        \A k \in 1..Len(l) : l[k].position = k /\ l[k].label = Letters[k]}

\* the songs of a file that match a track title of the side
TitleMatches(file, side) == IF file.song = side.title THEN 1 ELSE 0

\* 10 x dur_score: (1.0 - ratio * 10.0).max(0.0), 0.5 without duration data
DurScore(side, duration) ==
    IF side.total_duration > 0
    THEN MaxOf(0, 10 - (Distance(side.total_duration, duration) * 100) \div duration)
    ELSE 5

\* lookup.rs and album_finder.rs: song_score * 100.0 + dur_score * 10.0, and
\* 0.0 for a file without songs
score_file_vs_side(file, side) ==
    IF file.song = "none" THEN 0
    ELSE TitleMatches(file, side) * 100 + DurScore(side, file.duration)

\* find_via_musicbrainz: overlap * 100.0 + dur_score * 10.0
MediumScore(file, side) ==
    (IF file.song = "none" THEN 0 ELSE TitleMatches(file, side)) * 100
        + DurScore(side, file.duration)

\* the (file, side) pairs in the order of the two nested loops
PairOrder(fs, ss) ==
    [k \in 1..(Len(fs) * Len(ss)) |->
        [fi |-> ((k - 1) \div Len(ss)) + 1, si |-> ((k - 1) % Len(ss)) + 1]]

Assigned(fi, si, score, label) == [fi |-> fi, si |-> si, score |-> score, label |-> label]

UsedFiles(assigned) == {assigned[k].fi : k \in 1..Len(assigned)}
UsedSides(assigned) == {assigned[k].si : k \in 1..Len(assigned)}

\* every side is offered in every round
SideTakenNever(assigned_sides, si) == FALSE

\* a side already taken is not offered again
SideTaken(assigned_sides, si) == si \in assigned_sides

\* the best remaining pair: the first, in loop order, of the highest score
BestPair(fs, ss, assigned) ==
    LET order == PairOrder(fs, ss)
        free == {k \in 1..Len(order) :
                    /\ order[k].fi \notin UsedFiles(assigned)
                    /\ ~SideTaken(UsedSides(assigned), order[k].si)}
        sc(k) == score_file_vs_side(fs[order[k].fi], ss[order[k].si])
    IN IF free = {} THEN [fi |-> 0, si |-> 0, score |-> -1]
       ELSE LET b == CHOOSE k \in free :
                        \A j \in free : sc(k) > sc(j) \/ (sc(k) = sc(j) /\ k <= j)
            IN [fi |-> order[b].fi, si |-> order[b].si, score |-> sc(b)]

RECURSIVE GreedyRounds(_, _, _, _)
\* for _ in 0..pairs { pick the best; if best <= 0.0 { break }; assign }
GreedyRounds(fs, ss, rounds, assigned) ==
    IF rounds = 0 THEN assigned
    ELSE LET best == BestPair(fs, ss, assigned)
         IN IF best.score <= 0 THEN assigned
            ELSE GreedyRounds(fs, ss, rounds - 1,
                     Append(assigned, Assigned(best.fi, best.si, best.score,
                                               ss[best.si].label)))

\* assign_files_to_album_sides (lookup.rs), assign_files_to_sides (album_finder.rs)
assign_files_to_sides(fs, ss) ==
    IF ss = <<>> THEN <<>>
    ELSE GreedyRounds(fs, ss, MinOf(Len(fs), Len(ss)), <<>>)

\* ('A' as u8 + position.saturating_sub(1) as u8) as char
MediumLabel(position) == Letters[SatSub(position, 1) + 1]

RECURSIVE TakeSorted(_, _, _, _, _)
\* find_via_musicbrainz: every pair of the sorted list whose file and side
\* are both free is assigned
TakeSorted(fs, ss, all_pairs, k, assigned) ==
    IF k > Len(all_pairs) THEN assigned
    ELSE LET p == all_pairs[k]
         IN TakeSorted(fs, ss, all_pairs, k + 1,
                IF p.fi \in UsedFiles(assigned) \/ SideTaken(UsedSides(assigned), p.si)
                THEN assigned
                ELSE Append(assigned,
                            Assigned(p.fi, p.si, p.score,
                                     MediumLabel(ss[p.si].position))))

\* find_via_musicbrainz, from the scoring of the pairs on
find_via_musicbrainz(fs, ss) ==
    IF ss = <<>> THEN <<>>
    ELSE LET order == PairOrder(fs, ss)
             scored == [k \in 1..Len(order) |->
                          [key |-> -MediumScore(fs[order[k].fi], ss[order[k].si]),
                           v |-> order[k]]]
             sorted == SortPairs(scored)
             all_pairs == [k \in 1..Len(sorted) |->
                             [fi |-> sorted[k].v.fi, si |-> sorted[k].v.si,
                              score |-> -sorted[k].key]]
         IN TakeSorted(fs, ss, all_pairs, 1, <<>>)

\* no album is being assigned
NoAssign ==
    /\ sa_pc = "none"
    /\ assigner = "none"
    /\ files = <<>>
    /\ sides = <<>>
    /\ assignments = <<>>

\* the files of an album and the release found for them
InitAssign ==
    /\ sa_pc = "ready"
    /\ assigner = "none"
    /\ files \in FileLists
    /\ sides \in SideLists
    /\ assignments = <<>>

\* the other offline tools are not running

\* ----------------------------------------------------- album resolver
\* the MusicBrainz search returns at most MaxReleases releases
MaxReleases == 2

\* what a lookup gives: nothing, an error, or a track list (the lengths of
\* the tracks in seconds, 0 for a track without duration data)
Nothing == [kind |-> "none", tracks |-> <<>>]
Failed == [kind |-> "err", tracks |-> <<>>]
Found(tracks) == [kind |-> "some", tracks |-> tracks]

\* an empty list, a list of 0 s tracks, a list with durations
TrackLengths == {<<>>, <<0, 0>>, <<180, 240>>}
Lookups == {Nothing, Failed} \cup {Found(t) : t \in TrackLengths}

\* identify_album: the backends enabled on the command line, in order
BackendConfigs == {<<"Discogs", "MusicBrainz (vinyl)", "MusicBrainz (all)">>,
                   <<"MusicBrainz (vinyl)", "MusicBrainz (all)">>,
                   <<"Discogs">>}

\* the releases a MusicBrainz search returns, each with what
\* fetch_release_sides and find_best_side give for it
ReleaseLists ==
    UNION {[1..n -> [is_vinyl : BOOLEAN, side : Lookups]] : n \in 0..MaxReleases}

\* AlbumSideResult::has_usable_durations
has_usable_durations(tracks) == \E k \in 1..Len(tracks) : tracks[k] > 0

\* tracks.iter().map(|t| t.length_seconds).sum()
total_dur(tracks) == SumRange(tracks, 0, Len(tracks))

\* a list that fetch_durations_for_album hands out whatever its durations
AnyDurations(tracks) == TRUE

\* the test fetch_durations_for_album makes before it returns a list
WithDurations(tracks) == total_dur(tracks) > 0

\* MusicBrainz: the vinyl releases if vinyl_only and there are any
candidates(name, results) ==
    LET vinyl == SelectSeq(results, LAMBDA r : r.is_vinyl)
    IN IF name = "MusicBrainz (vinyl)" /\ vinyl # <<>> THEN vinyl ELSE results

RECURSIVE FirstWithDurations(_, _)
\* for result in &candidates: the first release whose best side has durations
FirstWithDurations(cands, k) ==
    IF k > Len(cands) THEN Nothing
    ELSE IF cands[k].side.kind = "some" /\ WithDurations(cands[k].side.tracks)
         THEN cands[k].side
         ELSE FirstWithDurations(cands, k + 1)

\* fetch_durations_for_album: Discogs keeps the trait's default, Ok(None)
fetch_durations_for_album(name, search) ==
    IF name = "Discogs" THEN Nothing
    ELSE IF search.kind = "err" THEN Failed
    ELSE IF search.results = <<>> THEN Nothing
    ELSE FirstWithDurations(candidates(name, search.results), 1)

RECURSIVE Enriched(_, _, _, _, _)
\* for (j, other) in backends: the first other backend that returns tracks
Enriched(names, search, idx, j, found) ==
    IF j > Len(names) THEN found
    ELSE IF j = idx THEN Enriched(names, search, idx, j + 1, found)
    ELSE LET enriched == fetch_durations_for_album(names[j], search)
         IN IF enriched.kind = "some"
            THEN [found EXCEPT !.tracks = enriched.tracks, !.durations_from = j]
            ELSE Enriched(names, search, idx, j + 1, found)

NoResult == [backend |-> 0, tracks |-> <<>>, durations_from |-> 0]

RECURSIVE FirstResult(_, _, _, _)
\* find_album_side_with_fallback
FirstResult(names, sidesFound, search, idx) ==
    IF idx > Len(names) THEN NoResult
    ELSE IF sidesFound[idx].kind = "some"
         THEN LET found == [backend |-> idx, tracks |-> sidesFound[idx].tracks,
                            durations_from |-> 0]
              IN IF ~has_usable_durations(found.tracks)
                 THEN Enriched(names, search, idx, 1, found)
                 ELSE found
         ELSE FirstResult(names, sidesFound, search, idx + 1)

find_album_side_with_fallback(names, sidesFound, search) ==
    FirstResult(names, sidesFound, search, 1)

\* no album is being resolved
NoResolver ==
    /\ fb_pc = "none"
    /\ backends = <<>>
    /\ side_found = <<>>
    /\ mb_search = [kind |-> "ok", results |-> <<>>]
    /\ fb_result = NoResult

\* the backends, what find_album_side gives in each of them, and what a
\* MusicBrainz search for the album gives
InitResolver ==
    /\ fb_pc = "ready"
    /\ backends \in BackendConfigs
    /\ side_found \in [1..Len(backends) -> Lookups]
    /\ mb_search \in {[kind |-> "err", results |-> <<>>]}
                         \cup {[kind |-> "ok", results |-> l] : l \in ReleaseLists}
    /\ fb_result = NoResult

\* ------------------------------------------- directory mode (cue_creator,
\* boundary_finder)
\* a directory holds at most MaxWavFiles WAV files
MaxWavFiles == 3

\* a file is well-formed, was removed since the directory was listed, or
\* has a header read_wav_header rejects
WavStates == {"ok", "missing", "malformed"}

\* the run is over: main returned or the process ended
RunEnded == dm_pc \in {"done", "exited"}

\* no directory is being processed
NoDirectory ==
    /\ dm_pc = "none"
    /\ tool = "none"
    /\ files_to_process = <<>>
    /\ next_file = 1
    /\ processed = {}
    /\ ended_by = "none"

\* main has listed the directory and is about to loop over the files
InitDirectory ==
    /\ dm_pc = "loop"
    /\ tool \in {"cue_creator", "boundary_finder"}
    /\ files_to_process \in UNION {[1..n -> WavStates] : n \in 1..MaxWavFiles}
    /\ next_file = 1
    /\ processed = {}
    /\ ended_by = "none"

\* ------------------------------------------------ song detect scheduler
\* the scheduler is reset at most MaxResets times, detection runs every
\* DetectInterval seconds (the constructor's interval_secs)
MaxResets == 2
DetectInterval == 2
\* the ring buffer keeps 15 s of audio, a detection needs 3 s
KeepSecs == 15
NeedSecs == 3

\* no detection thread is running
NoThread == -1

\* the checks tick and trigger_immediate make before they spawn the thread
CanLaunch == ~detecting /\ pcm_buf >= NeedSecs

\* last_detect = now, detecting = true, ever_attempted = true, and the thread
\* is spawned with the result's Arc
Launch ==
    /\ since_detect' = 0
    /\ detecting' = TRUE
    /\ ever_attempted' = TRUE
    /\ det_thread' = resets
    /\ UNCHANGED <<pcm_buf, sd_result, resets, sd_pc>>

\* what the finished thread stores: the result of the detection it ran
Publish(res) == res

\* no scheduler exists
NoScheduler ==
    /\ sd_pc = "none"
    /\ pcm_buf = 0
    /\ since_detect = 0
    /\ sd_result = [some |-> FALSE, launched |-> 0]
    /\ detecting = FALSE
    /\ ever_attempted = FALSE
    /\ det_thread = NoThread
    /\ resets = 0

\* SongDetectScheduler::new
InitScheduler ==
    /\ sd_pc = "run"
    /\ pcm_buf = 0
    /\ since_detect = 0
    /\ sd_result = [some |-> FALSE, launched |-> 0]
    /\ detecting = FALSE
    /\ ever_attempted = FALSE
    /\ det_thread = NoThread
    /\ resets = 0

\* ------------------------------------------------ adaptive pause detector
\* at most MaxSongs song boundaries between two resets, MaxTimeouts pause
\* timeouts and MaxDetectorResets resets in a run
MaxSongs == 3
MaxTimeouts == 2
MaxDetectorResets == 1

\* AdaptivePauseDetector::new and reset: the initial defaults
DefaultThresholdDb == -50
DefaultPauseMs == 200
\* training: the threshold is at least -50 dB
MinThresholdDb == -50
\* adapt_parameters: +100 ms up to 1500 ms when the average is under 120 s
PauseStepMs == 100
MaxPauseMs == 1500
MIN_SONG_LENGTH_SECS == 120
\* increase_sensitivity: +2 dB up to -30 dB
ThresholdStepDb == 2
MaxThresholdDb == -30

\* Option<T>
OptNone == [some |-> FALSE, v |-> 0]
OptSome(v) == [some |-> TRUE, v |-> v]

\* the noise floors training may learn, the values a user may set, and the
\* lengths of the songs, in seconds
NoiseFloors == {-80, -60, -40}
ThresholdOverrides == {-60, -40}
DurationOverrides == {300, 1000}
SongLengths == {60, 180}

\* process_training: self.pause_threshold_db = self.noise_floor_db.max(-50.0)
ThresholdAfterTraining(floor) == MaxOf(floor, MinThresholdDb)

\* adapt_parameters: the new pause_duration_ms
adapt_parameters(durations) ==
    IF Len(durations) < 3 THEN pause_duration_ms
    ELSE LET avg_secs == SumRange(durations, 0, Len(durations)) \div Len(durations)
         IN IF avg_secs < MIN_SONG_LENGTH_SECS /\ ~pause_duration_override.some
            THEN MinOf(pause_duration_ms + PauseStepMs, MaxPauseMs)
            ELSE pause_duration_ms

\* increase_sensitivity: the new pause_threshold_db
increase_sensitivity ==
    IF threshold_override.some THEN pause_threshold_db
    ELSE MinOf(pause_threshold_db + ThresholdStepDb, MaxThresholdDb)

\* no pause detector exists
NoDetector ==
    /\ pd_state = "none"
    /\ pd_noise_floor_db = -80
    /\ pause_threshold_db = DefaultThresholdDb
    /\ pause_duration_ms = DefaultPauseMs
    /\ threshold_override = OptNone
    /\ pause_duration_override = OptNone
    /\ song_durations = <<>>
    /\ timeouts = 0
    /\ detector_resets = 0
    /\ pd_last = "none"

\* AdaptivePauseDetector::new
InitDetector ==
    /\ pd_state = "Training"
    /\ pd_noise_floor_db = -80
    /\ pause_threshold_db = DefaultThresholdDb
    /\ pause_duration_ms = DefaultPauseMs
    /\ threshold_override = OptNone
    /\ pause_duration_override = OptNone
    /\ song_durations = <<>>
    /\ timeouts = 0
    /\ detector_resets = 0
    /\ pd_last = "new"

\* the other tools are not running
NoAux == NoAssign /\ NoResolver /\ NoDirectory /\ NoScheduler /\ NoDetector

\* -------------------------------------------------------- rate limiter
\* Discogs' authenticated base interval, in milliseconds
BaseMs == 1000
\* from_millis: max interval = 16 x base, reduce after 10 successes
MaxFactor == 16
SuccessesToReduce == 10
\* the clock is read in steps of half a base interval
ClockStep == BaseMs \div 2
\* elapsed times beyond every interval are not told apart
MaxElapsed == MaxFactor * BaseMs + ClockStep

\* the record of a limiter call: the call, the interval and the counter
\* before it, whether a last request was recorded, and the time since that
\* request at which the call returned
LimiterStep(op, interval, count, had_last, returned_after) ==
    [op |-> op, interval |-> interval, count |-> count, had_last |-> had_last,
     returned_after |-> returned_after]

\* RateLimiter::new(name, base, max, reduce)
InitLimiter(base, max, reduce) ==
    /\ last_request = "None"
    /\ elapsed = 0
    /\ current_interval = base
    /\ base_interval = base
    /\ max_interval = max
    /\ success_count = 0
    /\ successes_to_reduce = reduce
    /\ rl_last = LimiterStep("new", base, 0, FALSE, 0)

\* RateLimiter::from_millis(name, millis)
from_millis(millis) == InitLimiter(millis, millis * MaxFactor, SuccessesToReduce)

\* the record of an outbound request: what happened last, the time since the
\* previous request when this one was sent (NoTime for the first), whether
\* wait_if_needed was called in between, the response, the limiter's interval
\* when the request was sent, whether the segment's hash was in the songrec
\* cache, and the requests sent so far for the current item
ClientStep(op, gap, w, status, interval, cached, sent) ==
    [op |-> op, gap |-> gap, waited |-> w, status |-> status,
     interval |-> interval, cached |-> cached, sent |-> sent]

\* no request loop runs
NoClient ==
    /\ client = "none"
    /\ cl_pc = "loop"
    /\ todo = 0
    /\ req_gap = NoTime
    /\ waited = FALSE
    /\ cl_last = ClientStep("none", NoTime, FALSE, "none", 0, FALSE, 0)

NoServices == from_millis(BaseMs) /\ NoClient /\ NoFinder /\ NoAux

Init ==
    /\ \E ml \in 0..MaxMinLength, fmt \in Formats : InitRecorder({}, ml, fmt)
    /\ InitVU(0, 1)
    /\ NoInput
    /\ NoStream
    /\ NoServices

\* the recorder started in a directory that already holds recording files
InitNumbering == \E ex \in SUBSET (1..MaxPre), ml \in 0..MaxMinLength :
                    InitRecorder(ex, ml, "S32") /\ InitVU(0, 1) /\ NoInput
                    /\ NoStream /\ NoServices

\* a VU meter of any window size; the recorder stays idle
InitVUMeter ==
    /\ InitRecorder({}, 0, "S32")
    /\ \E sd \in 0..MaxSilence, ui \in 1..MaxInterval : InitVU(sd, ui)
    /\ NoInput
    /\ NoStream
    /\ NoServices

InitStreams ==
    /\ InitRecorder({}, 0, "S32")
    /\ InitVU(0, 1)
    /\ NoInput
    /\ \E v \in Variants, fl \in 0..MaxFileLen :
           InitStream(v, IF v = "file" THEN fl ELSE 0)
    /\ NoServices

NoCapture ==
    /\ InitRecorder({}, 0, "S32")
    /\ InitVU(0, 1)
    /\ NoInput
    /\ NoStream

\* a limiter as from_millis builds it, or as new builds it with another
\* ceiling or with adaptive reduction disabled (successes_to_reduce = 0)
InitLimiters ==
    /\ NoCapture
    /\ \E f \in {OddMaxFactor, MaxFactor}, reduce \in {0, SuccessesToReduce} :
           InitLimiter(BaseMs, BaseMs * f, reduce)
    /\ NoClient
    /\ NoFinder
    /\ NoAux

\* autorecord: a source that delivers onLen units of signal, then AutoOff units
\* of silence, one chunk per time unit (update_interval = 1), and then ends
InitAuto ==
    /\ InitRecorder({}, AutoMinLength, "S32")
    /\ \E sd \in 1..AutoSilence : InitVU(sd, 1)
    /\ onLen \in {0, AutoOn}
    /\ offLen = AutoOff
    /\ NoStream
    /\ NoServices

\* ------------------------------------------------- capture loop actions
mainUnchanged == <<current_file, recording_start_time, next_file_number,
                   min_length, format, wav_writer, workerPc, disk, existing,
                   now, opened, ioErrors, last, recording>>

\* a variant that sends Start whenever no recording is running, on or off
write_audio_starts_when_off(audio_data, is_on) ==
    queue' = (IF ~recording THEN Append(queue, Cmd("Start", <<>>, now)) ELSE queue)
               \o (IF is_on THEN <<Cmd("Write", Interleave(audio_data), now)>>
                            ELSE IF recording THEN <<Cmd("Stop", <<>>, now)>> ELSE <<>>)

\* write_audio(audio_data, is_on)
write_audio(audio_data, is_on) ==
    IF is_on
    THEN queue' = (IF ~recording THEN Append(queue, Cmd("Start", <<>>, now))
                                 ELSE queue)
                    \o <<Cmd("Write", Interleave(audio_data), now)>>
    ELSE queue' = IF recording THEN Append(queue, Cmd("Stop", <<>>, now)) ELSE queue

WriteAudio ==
    /\ UNCHANGED <<vuVars, inVars, stVars, svcVars>>
    /\ mainPc = "run"
    /\ calls < MaxCalls
    /\ \E is_on \in BOOLEAN :
         /\ write_audio(Chunk(calls + 1), is_on)
         /\ everOn' = (everOn \/ is_on)
    /\ calls' = calls + 1
    /\ UNCHANGED <<mainPc, sender_dropped>>
    /\ UNCHANGED mainUnchanged

\* close(): Stop if recording, then drop the sender; join waits for the thread
Close ==
    /\ UNCHANGED <<vuVars, inVars, stVars, svcVars>>
    /\ mainPc = "run"
    /\ queue' = IF recording THEN Append(queue, Cmd("Stop", <<>>, now)) ELSE queue
    /\ sender_dropped' = TRUE
    /\ mainPc' = "closing"
    /\ UNCHANGED <<calls, everOn>>
    /\ UNCHANGED mainUnchanged

Join ==
    /\ UNCHANGED <<vuVars, inVars, stVars, svcVars>>
    /\ mainPc = "closing"
    /\ workerPc = "exited"
    /\ mainPc' = "closed"
    /\ UNCHANGED <<calls, everOn, queue, sender_dropped>>
    /\ UNCHANGED mainUnchanged

\* the clock (Instant::now) moves on by one unit
Elapse ==
    /\ UNCHANGED <<vuVars, inVars, stVars, svcVars>>
    /\ mainPc # "closed"
    /\ now' = now + 1
    /\ UNCHANGED <<recording, current_file, recording_start_time, next_file_number,
                   queue, sender_dropped, min_length, format, wav_writer, workerPc,
                   mainPc, calls, disk, existing, opened, everOn, ioErrors, last>>

\* time passes
Advance ==
    /\ now < MaxTime
    /\ Elapse

\* -------------------------------------------------- writer thread actions
workerFixed == <<sender_dropped, min_length, format, mainPc, calls, existing,
                 now, everOn>>

Receives(c) == workerPc = "run" /\ queue # <<>> /\ Head(queue).cmd = c

WorkerStart ==
    /\ UNCHANGED <<vuVars, inVars, stVars, svcVars>>
    /\ Receives("Start")
    /\ queue' = Tail(queue)
    /\ UNCHANGED workerFixed
    /\ UNCHANGED workerPc
    /\ \/ \* already recording: the command is ignored
          /\ recording
          /\ last' = Step("start_ignored", current_file, 0, TRUE, next_file_number)
          /\ UNCHANGED <<recording, current_file, recording_start_time,
                         next_file_number, wav_writer, disk, opened, ioErrors>>
       \/ \* WavWriter::new succeeds: the file is created (truncated) with a
          \* header that declares 0 data bytes
          /\ ~recording
          /\ disk' = [disk EXCEPT ![next_file_number] =
                        [exists |-> TRUE, hdr |-> 0, data |-> <<>>]]
          /\ wav_writer' = [open |-> TRUE, file |-> next_file_number, data_size |-> 0,
                             first_t |-> NoTime, last_t |-> NoTime]
          /\ current_file' = next_file_number
          /\ recording' = TRUE
          /\ recording_start_time' = now
          /\ opened' = opened \cup {next_file_number}
          /\ last' = Step("start", next_file_number, 0, TRUE, next_file_number)
          /\ UNCHANGED <<next_file_number, ioErrors>>
       \/ \* File::create fails
          /\ ~recording
          /\ ioErrors < MaxIoErrors
          /\ ioErrors' = ioErrors + 1
          /\ last' = Step("start_failed", next_file_number, 0, FALSE, next_file_number)
          /\ UNCHANGED <<recording, current_file, recording_start_time,
                         next_file_number, wav_writer, disk, opened>>
       \/ \* File::create succeeds, writing the header fails
          /\ ~recording
          /\ ioErrors < MaxIoErrors
          /\ ioErrors' = ioErrors + 1
          /\ disk' = [disk EXCEPT ![next_file_number] =
                        [exists |-> TRUE, hdr |-> NoHeader, data |-> <<>>]]
          /\ opened' = opened \cup {next_file_number}
          /\ last' = Step("start_failed", next_file_number, 0, FALSE, next_file_number)
          /\ UNCHANGED <<recording, current_file, recording_start_time,
                         next_file_number, wav_writer>>

\* WavWriter::write_samples: the first k samples reach the file
write_samples(samples, k) ==
    /\ disk' = [disk EXCEPT ![wav_writer.file].data = @ \o SubSeq(samples, 1, k)]
    /\ wav_writer' = [wav_writer EXCEPT
                        !.data_size = @ + k * bytes_per_sample(format),
                        !.first_t = IF @ = NoTime /\ k > 0 THEN Head(queue).t ELSE @,
                        !.last_t = IF k > 0 THEN Head(queue).t ELSE @]

WorkerWrite ==
    /\ UNCHANGED <<vuVars, inVars, stVars, svcVars>>
    /\ Receives("Write")
    /\ queue' = Tail(queue)
    /\ UNCHANGED workerFixed
    /\ UNCHANGED <<workerPc, recording, current_file, recording_start_time,
                   next_file_number, opened>>
    /\ LET samples == Head(queue).samples IN
       \/ \* no open writer: the samples are discarded
          /\ ~wav_writer.open
          /\ last' = Step("write_dropped", NoFile, 0, TRUE, next_file_number)
          /\ UNCHANGED <<wav_writer, disk, ioErrors>>
       \/ /\ wav_writer.open
          /\ write_samples(samples, Len(samples))
          /\ last' = Step("write", wav_writer.file, 0, TRUE, next_file_number)
          /\ UNCHANGED ioErrors
       \/ \* write_all fails after k samples
          /\ wav_writer.open
          /\ ioErrors < MaxIoErrors
          /\ ioErrors' = ioErrors + 1
          /\ \E k \in 0..(Len(samples) - 1) : write_samples(samples, k)
          /\ last' = Step("write_failed", wav_writer.file, 0, FALSE, next_file_number)

\* WavWriter::finalize: rewrite the header with the counted data size
finalize(ok) ==
    IF ok THEN [disk EXCEPT ![wav_writer.file].hdr = HeaderField(wav_writer.data_size)]
          ELSE disk

\* variants of the min-length decision: never too short; too short at equality
TooShortNever(duration) == FALSE
TooShortOrEqual(duration) == duration <= min_length

\* the Stop handler's min-length decision
TooShort(duration) == duration < min_length

WorkerStop ==
    /\ UNCHANGED <<vuVars, inVars, stVars, svcVars>>
    /\ Receives("Stop")
    /\ queue' = Tail(queue)
    /\ UNCHANGED workerFixed
    /\ UNCHANGED <<workerPc, opened>>
    /\ \/ \* no open writer: nothing happens
          /\ ~wav_writer.open
          /\ last' = Step("stop_idle", NoFile, 0, TRUE, next_file_number)
          /\ UNCHANGED <<recording, current_file, recording_start_time,
                         next_file_number, wav_writer, disk, ioErrors>>
       \/ /\ wav_writer.open
          /\ \E fin \in BOOLEAN, rm \in BOOLEAN :
               LET duration == IF recording_start_time = NoTime THEN 0
                               ELSE now - recording_start_time
                   closed == finalize(fin)
                   errs == (IF fin THEN 0 ELSE 1)
                           + (IF TooShort(duration) /\ ~rm THEN 1 ELSE 0)
               IN /\ ioErrors + errs <= MaxIoErrors
                  /\ TooShort(duration) \/ rm
                  /\ ioErrors' = ioErrors + errs
                  /\ recording' = FALSE
                  /\ current_file' = NoFile
                  /\ recording_start_time' = NoTime
                  /\ wav_writer' = NoWriter
                  /\ IF TooShort(duration)
                     THEN /\ disk' = IF rm THEN [closed EXCEPT ![current_file] = NoFileOnDisk]
                                     ELSE closed
                          /\ next_file_number' = next_file_number
                          /\ last' = StopStep("stop_short", current_file, duration, fin,
                                              next_file_number,
                                              Span(wav_writer), rm)
                     ELSE /\ disk' = closed
                          /\ next_file_number' = next_file_number + 1
                          /\ last' = StopStep("stop_kept", current_file, duration, fin,
                                              next_file_number,
                                              Span(wav_writer), TRUE)

\* recv() fails once the channel is empty and the sender is gone: the loop
\* ends and the local writer, if any, is dropped without finalize
WorkerExit ==
    /\ UNCHANGED <<vuVars, inVars, stVars, svcVars>>
    /\ workerPc = "run"
    /\ queue = <<>>
    /\ sender_dropped
    /\ workerPc' = "exited"
    /\ wav_writer' = NoWriter
    /\ last' = Step(IF wav_writer.open THEN "exit_open" ELSE "exit", wav_writer.file,
                    0, TRUE, next_file_number)
    /\ UNCHANGED <<recording, current_file, recording_start_time, next_file_number,
                   queue, disk, opened, ioErrors>>
    /\ UNCHANGED workerFixed

\* ------------------------------------------- the autorecord main loop
\* the chunk the source delivers as its k-th
SourceLevels(k) == [ch \in 1..Channels |-> IF k <= onLen THEN Loud ELSE Quiet]

\* one pass of the loop: process_audio_chunk, any_channel_on, write_audio.
\* The k-th chunk is complete at time k.
AutoTick ==
    /\ mainPc = "run"
    /\ calls < onLen + offLen
    /\ calls < now
    /\ process_audio_chunk(SourceLevels(calls + 1))
    /\ LET any_channel_on == \E ch \in 1..Channels : metrics'[ch].is_on IN
         /\ write_audio(Chunk(calls + 1), any_channel_on)
         /\ everOn' = (everOn \/ any_channel_on)
    /\ calls' = calls + 1
    /\ UNCHANGED <<mainPc, sender_dropped>>
    /\ UNCHANGED mainUnchanged
    /\ UNCHANGED <<inVars, stVars, svcVars>>

\* the source has ended: read_chunk returns nothing, the loop breaks and main
\* calls recorder.close()
AutoClose ==
    /\ calls = onLen + offLen
    /\ Close

\* time passes once the loop and the writer thread have caught up with the
\* source
AutoAdvance ==
    /\ calls = now
    /\ queue = <<>>
    /\ calls < onLen + offLen
    /\ Elapse

\* ---------------------------------------------- audio input stream actions
notStream == <<recVars, vuVars, inVars, svcVars>>

\* mutant of TooFew
TooFewOrJustEnough(have, frames) == have <= frames

\* buffer.is_empty() || buffer[0].len() < frames
TooFew(have, frames) == have < frames

\* FileInputStream::start past its active check: open, probe and make the
\* decoder (any of which may fail), then reset the stream's fields
FileOpen(ok) ==
    IF ok
    THEN /\ active' = TRUE
         /\ avail' = file_len
         /\ buffer' = 0
    ELSE UNCHANGED <<active, avail, buffer>>

\* FileInputStream::stop
FileStop ==
    /\ active' = FALSE
    /\ avail' = 0
    /\ buffer' = 0

\* AudioInputStream::start
StreamStart ==
    /\ stPc = "idle"
    /\ CASE variant = "pipewire" ->
              IF active
              THEN UNCHANGED <<active, thread_handle, quit_flag, live>>
              ELSE \* the spawned thread returns early if PipeWire cannot be
                   \* set up, and otherwise stays in main_loop.run()
                   /\ quit_flag' = FALSE
                   /\ thread_handle' \in {"running", "exited"}
                   /\ live' = IF thread_handle' = "running" THEN live + 1 ELSE live
                   /\ active' = TRUE
         [] variant \in Pipes ->
              \* no test of self.process: a new child is spawned and the old
              \* Child handle is dropped, which does not end the old child
              \E spawned \in BOOLEAN :
                  /\ spawned => live < MaxLive
                  /\ process' = IF spawned THEN "running" ELSE process
                  /\ avail' = IF spawned THEN 0 ELSE avail
                  /\ live' = IF spawned THEN live + 1 ELSE live
         [] variant = "file" ->
              IF active
              THEN UNCHANGED <<active, avail, buffer>>
              ELSE \E ok \in BOOLEAN : FileOpen(ok)
    /\ CASE variant = "pipewire" -> UNCHANGED <<process, buffer, avail>>
         [] variant \in Pipes -> UNCHANGED <<active, thread_handle, buffer, quit_flag>>
         [] variant = "file" -> UNCHANGED <<process, thread_handle, quit_flag, live>>
    /\ UNCHANGED <<variant, file_len, stPc, rd>>
    /\ UNCHANGED notStream

\* AudioInputStream::stop; PipeWire's stop then joins the capture thread
StreamStop ==
    /\ stPc = "idle"
    /\ CASE variant = "pipewire" ->
              /\ active' = FALSE
              /\ quit_flag' = TRUE
              /\ IF thread_handle = "none"
                 THEN buffer' = 0 /\ stPc' = "idle"
                 ELSE buffer' = buffer /\ stPc' = "joining"
              /\ UNCHANGED <<process, thread_handle, avail, live>>
         [] variant \in Pipes ->
              \* process.kill() and process.wait() of the child still held
              /\ process' = "none"
              /\ avail' = 0
              /\ live' = IF process = "running" THEN live - 1 ELSE live
              /\ UNCHANGED <<active, thread_handle, buffer, stPc, quit_flag>>
         [] variant = "file" ->
              /\ FileStop
              /\ UNCHANGED <<process, thread_handle, stPc, quit_flag, live>>
    /\ UNCHANGED <<variant, file_len, rd>>
    /\ UNCHANGED notStream

\* handle.join() returns once the capture thread has returned; stop then
\* clears the buffer
StopJoined ==
    /\ stPc = "joining"
    /\ thread_handle = "exited"
    /\ thread_handle' = "none"
    /\ buffer' = 0
    /\ stPc' = "idle"
    /\ UNCHANGED <<variant, active, process, avail, file_len, rd, quit_flag, live>>
    /\ UNCHANGED notStream

\* the capture side delivers a frame: the PipeWire process callback appends
\* to the shared buffer, the pw-record / arecord child writes to its pipe
Capture ==
    /\ \/ /\ variant = "pipewire"
          /\ thread_handle = "running"
          /\ buffer < MaxBuffer
          /\ buffer' = buffer + 1
          /\ avail' = avail
       \/ /\ variant \in Pipes
          /\ process = "running"
          /\ avail < MaxBuffer
          /\ avail' = avail + 1
          /\ buffer' = buffer
    /\ UNCHANGED <<variant, active, process, thread_handle, file_len, stPc, rd,
                   quit_flag, live>>
    /\ UNCHANGED notStream

\* the capture child ends by itself; the stream still holds its handle
ChildExits ==
    /\ variant \in Pipes
    /\ process = "running"
    /\ process' = "exited"
    /\ live' = live - 1
    /\ UNCHANGED <<variant, active, thread_handle, buffer, avail, file_len, stPc, rd,
                   quit_flag>>
    /\ UNCHANGED notStream

\* a child whose handle start replaced: its pipe has lost its reader, and it
\* ends at a later write
OrphanExits ==
    /\ variant \in Pipes
    /\ live > (IF process = "running" THEN 1 ELSE 0)
    /\ live' = live - 1
    /\ UNCHANGED <<variant, active, process, thread_handle, buffer, avail, file_len,
                   stPc, rd, quit_flag>>
    /\ UNCHANGED notStream

\* PipeWireInputStream::read_chunk; arrived: the frames the callback appends
\* during the wait of up to 50 x 10 ms
PipeWireReadChunk(frames) ==
    IF ~active
    THEN /\ rd' = ReadRecord("None", TRUE, 0, FALSE, "none")
         /\ UNCHANGED buffer
    ELSE \E arrived \in 0..(IF thread_handle = "running"
                             THEN MaxBuffer - buffer ELSE 0) :
            LET have == buffer + arrived IN
            IF TooFew(have, frames)
            THEN /\ rd' = ReadRecord("None", FALSE, have, FALSE, "none")
                 /\ buffer' = have
            ELSE /\ rd' = ReadRecord("Some", FALSE, have, FALSE, "none")
                 /\ buffer' = have - frames

\* PwPipeInputStream::read_chunk and AlsaInputStream::read_chunk: read_exact
\* blocks until the pipe holds the whole chunk or the child has closed it
PipeReadChunk(frames) ==
    IF process = "none"
    THEN /\ rd' = ReadRecord("None", TRUE, 0, FALSE, "none")
         /\ UNCHANGED avail
    ELSE /\ avail >= frames \/ process = "exited"
         /\ IF avail >= frames
            THEN /\ rd' = ReadRecord("Some", FALSE, avail, FALSE, "none")
                 /\ avail' = avail - frames
            ELSE /\ rd' = ReadRecord("None", FALSE, avail, TRUE, "none")
                 /\ avail' = 0

\* AudioInputStream::read_chunk; the file variant enters its refill loop
ReadChunk ==
    /\ stPc = "idle"
    /\ CASE variant = "pipewire" ->
              /\ PipeWireReadChunk(ChunkFrames)
              /\ UNCHANGED <<avail, stPc>>
         [] variant \in Pipes ->
              /\ PipeReadChunk(ChunkFrames)
              /\ UNCHANGED <<buffer, stPc>>
         [] variant = "file" ->
              /\ IF ~active
                 THEN /\ rd' = ReadRecord("None", TRUE, 0, FALSE, "none")
                      /\ stPc' = "idle"
                 ELSE /\ rd' = ReadRecord("pending", FALSE, buffer, FALSE, "none")
                      /\ stPc' = "reading"
              /\ UNCHANGED <<buffer, avail>>
    /\ UNCHANGED <<variant, active, process, thread_handle, file_len, quit_flag, live>>
    /\ UNCHANGED notStream

\* FileInputStream::refill_buffer, one pass of read_chunk's while loop
refill_buffer ==
    /\ stPc = "reading"
    /\ TooFew(buffer, ChunkFrames)
    /\ IF avail > 0
       THEN \E decoded \in BOOLEAN :
               IF decoded
               THEN /\ buffer' = buffer + 1
                    /\ avail' = avail - 1
                    /\ UNCHANGED <<active, stPc, rd>>
               ELSE /\ avail' = avail - 1
                    /\ rd' = [rd EXCEPT !.result = "None", !.fault = "decode"]
                    /\ stPc' = "idle"
                    /\ UNCHANGED <<active, buffer>>
       ELSE \* next_packet fails at the end of the file: stop(), start()
            \E ok \in BOOLEAN :
               IF ok
               THEN /\ FileOpen(TRUE)
                    /\ rd' = [rd EXCEPT !.eof = TRUE]
                    /\ UNCHANGED stPc
               ELSE /\ FileStop
                    /\ rd' = [rd EXCEPT !.result = "None", !.eof = TRUE,
                                        !.fault = "reopen"]
                    /\ stPc' = "idle"
    /\ UNCHANGED <<variant, process, thread_handle, file_len, quit_flag, live>>
    /\ UNCHANGED notStream

\* FileInputStream::read_chunk once the buffer holds the chunk: drain it
FileDeliver ==
    /\ stPc = "reading"
    /\ ~TooFew(buffer, ChunkFrames)
    /\ buffer' = buffer - ChunkFrames
    /\ rd' = [rd EXCEPT !.result = "Some"]
    /\ stPc' = "idle"
    /\ UNCHANGED <<variant, active, process, thread_handle, avail, file_len,
                   quit_flag, live>>
    /\ UNCHANGED notStream

\* ------------------------------------------------- rate limiter actions
limiterConfig == <<base_interval, max_interval, successes_to_reduce>>

\* mutant of DoubledInterval: no ceiling
DoubledUncapped(interval, max) == interval * 2

\* report_failure's new interval
DoubledInterval(interval, max) ==
    LET new_interval == interval * 2 IN
    IF new_interval <= max THEN new_interval ELSE max

\* mutant of HalvedInterval: no floor
HalvedUnfloored(interval, base) == interval \div 2

\* report_success's new interval
HalvedInterval(interval, base) ==
    LET new_interval == interval \div 2 IN
    IF new_interval >= base THEN new_interval ELSE base

\* mutant of WaitTime: half the missing time
WaitTimeHalved(interval, el) == (interval - el) \div 2

\* wait_if_needed's sleep
WaitTime(interval, el) == interval - el

\* RateLimiter::report_failure, on the limiter's own fields
DoReportFailure ==
    /\ current_interval' = DoubledInterval(current_interval, max_interval)
    /\ success_count' = 0
    /\ rl_last' = LimiterStep("report_failure", current_interval, success_count,
                              last_request = "Some", 0)
    /\ UNCHANGED <<last_request, elapsed, limiterConfig>>

\* RateLimiter::report_success, on the limiter's own fields
DoReportSuccess ==
    /\ rl_last' = LimiterStep("report_success", current_interval, success_count,
                              last_request = "Some", 0)
    /\ IF successes_to_reduce = 0
       THEN UNCHANGED <<current_interval, success_count>>
       ELSE IF success_count + 1 >= successes_to_reduce
               /\ current_interval > base_interval
            THEN /\ current_interval' = HalvedInterval(current_interval, base_interval)
                 /\ success_count' = 0
            ELSE /\ success_count' = success_count + 1
                 /\ UNCHANGED current_interval
    /\ UNCHANGED <<last_request, elapsed, limiterConfig>>

\* RateLimiter::wait_if_needed, on the limiter's own fields: thread::sleep
\* sleeps for the wait time or longer
DoWaitIfNeeded ==
    /\ \E over \in {0, ClockStep} :
          LET sleeps == last_request = "Some" /\ elapsed < current_interval
              returned == IF sleeps
                          THEN elapsed + WaitTime(current_interval, elapsed) + over
                          ELSE elapsed
          IN rl_last' = LimiterStep("wait_if_needed", current_interval, success_count,
                                    last_request = "Some", returned)
    /\ last_request' = "Some"
    /\ elapsed' = 0
    /\ UNCHANGED <<current_interval, success_count, limiterConfig>>

report_failure ==
    /\ DoReportFailure
    /\ UNCHANGED <<captureVars, clVars, bfVars, auxVars>>

report_success ==
    /\ success_count < MaxSuccessCount
    /\ DoReportSuccess
    /\ UNCHANGED <<captureVars, clVars, bfVars, auxVars>>

wait_if_needed ==
    /\ DoWaitIfNeeded
    /\ UNCHANGED <<captureVars, clVars, bfVars, auxVars>>

\* time passes for the limiter's owner
LimiterElapse ==
    /\ last_request = "Some"
    /\ elapsed < MaxElapsed
    /\ elapsed' = IF elapsed + ClockStep > MaxElapsed THEN MaxElapsed
                  ELSE elapsed + ClockStep
    /\ rl_last' = [rl_last EXCEPT !.op = "elapse"]
    /\ UNCHANGED <<last_request, current_interval, success_count, limiterConfig>>
    /\ UNCHANGED <<captureVars, clVars, bfVars, auxVars>>

\* --------------------------------------------- external-service clients
\* the request loops: discogs (fetch_release for each candidate release),
\* musicbrainz (find_album_by_songs, one search per song) and songrec
\* (identify_songs_at_timestamps, one fingerprint request per segment)
Clients == {"discogs", "musicbrainz", "songrec"}

\* Discogs' unauthenticated interval, MusicBrainz's interval (milliseconds),
\* the fingerprint backend's interval (seconds) and the sleep before a retry
UnauthMs == 2500
MusicBrainzMs == 1100
SongrecSecs == 5
RetrySleepSecs == 30
MsPerSec == 1000
RetrySleepMs == RetrySleepSecs * MsPerSec

\* what an HTTP call can answer, and what a songrec run can end with
Responses == {"ok", "429", "500"}
Outputs == {"match", "no_match", "decode_error", "other_error", "spawn_error"}

\* album_identifier's RateLimiter::new(min_interval_secs)
SongrecLimiter(secs) ==
    InitLimiter(secs * MsPerSec, secs * MaxFactor * MsPerSec, SuccessesToReduce)

\* times beyond every interval are not told apart
Horizon == max_interval + base_interval

Later(t, ms) == IF t = NoTime THEN NoTime
                ELSE IF t + ms > Horizon THEN Horizon ELSE t + ms

\* a request loop over n items with its freshly built limiter
InitClient(c, n) ==
    /\ client = c
    /\ cl_pc = "loop"
    /\ todo = n
    /\ req_gap = NoTime
    /\ waited = FALSE
    /\ cl_last = ClientStep("none", NoTime, FALSE, "none", 0, FALSE, 0)
    /\ CASE c = "discogs" -> \E ms \in {BaseMs, UnauthMs} : from_millis(ms)
         [] c = "musicbrainz" -> from_millis(MusicBrainzMs)
         [] c = "songrec" -> SongrecLimiter(SongrecSecs)

InitClients ==
    /\ NoCapture
    /\ NoFinder
    /\ NoAux
    /\ \E c \in Clients, n \in 1..MaxItems : InitClient(c, n)

\* the outbound request leaves, gap after the previous one
SendRequest(gap, w, cached, sent) ==
    /\ cl_last' = ClientStep("request", gap, w, "pending", current_interval,
                             cached, sent)
    /\ req_gap' = 0
    /\ waited' = FALSE

\* how long the wait_if_needed of this step slept
Slept == rl_last'.returned_after - elapsed

\* discogs fetch_release / search_releases, first half: wait_if_needed, then
\* the API call is sent
DiscogsRequest ==
    /\ client = "discogs"
    /\ cl_pc = "loop"
    /\ todo > 0
    /\ DoWaitIfNeeded
    /\ SendRequest(Later(req_gap, Slept), TRUE, FALSE, 1)
    /\ cl_pc' = "sent"
    /\ UNCHANGED <<client, todo>>
    /\ UNCHANGED <<captureVars, bfVars, auxVars>>

\* second half: call()? returns the error to the caller, which goes on with
\* the next release; only an answered call reaches report_success
DiscogsResponse ==
    /\ client = "discogs"
    /\ cl_pc = "sent"
    /\ \E status \in Responses :
          /\ cl_last' = [cl_last EXCEPT !.op = "response", !.status = status]
          /\ IF status = "ok" THEN DoReportSuccess ELSE UNCHANGED rlVars
    /\ todo' = todo - 1
    /\ cl_pc' = "loop"
    /\ UNCHANGED <<client, req_gap, waited>>
    /\ UNCHANGED <<captureVars, bfVars, auxVars>>

\* musicbrainz find_album_by_songs, loop body first half: search_recording
\* sends the query
MusicBrainzSearch ==
    /\ client = "musicbrainz"
    /\ cl_pc = "loop"
    /\ todo > 0
    /\ SendRequest(req_gap, waited, FALSE, 1)
    /\ cl_pc' = "sent"
    /\ UNCHANGED <<client, todo>>
    /\ UNCHANGED rlVars
    /\ UNCHANGED <<captureVars, bfVars, auxVars>>

\* second half: the result is matched (an error is only printed), then
\* rl.wait_if_needed() ends the loop body
MusicBrainzResult ==
    /\ client = "musicbrainz"
    /\ cl_pc = "sent"
    /\ \E status \in Responses :
          cl_last' = [cl_last EXCEPT !.op = "response", !.status = status]
    /\ DoWaitIfNeeded
    /\ req_gap' = Later(req_gap, Slept)
    /\ waited' = TRUE
    /\ todo' = todo - 1
    /\ cl_pc' = "loop"
    /\ UNCHANGED client
    /\ UNCHANGED <<captureVars, bfVars, auxVars>>

\* mutant of AfterRetry: the retry's own result decides
AfterRetryByResult(out) ==
    IF out \in {"match", "no_match"} THEN "report_success" ELSE "report_failure"

\* what the identifier reports to its limiter once the retry has returned
AfterRetry(out) == "report_failure"

\* identify_songs_at_timestamps, loop body up to the songrec run: the segment
\* is extracted (a failure skips the timestamp), wait_if_needed, songrec
\* starts; whether the segment's hash is in the songrec cache is not looked at
SongrecSegment ==
    /\ client = "songrec"
    /\ cl_pc = "loop"
    /\ todo > 0
    /\ \E extracted \in BOOLEAN, cached \in BOOLEAN :
          IF extracted
          THEN /\ DoWaitIfNeeded
               /\ SendRequest(Later(req_gap, Slept), TRUE, cached, 1)
               /\ cl_pc' = "sent"
               /\ UNCHANGED todo
          ELSE /\ cl_last' = [cl_last EXCEPT !.op = "skipped", !.sent = 0]
               /\ todo' = todo - 1
               /\ UNCHANGED <<cl_pc, req_gap, waited>>
               /\ UNCHANGED rlVars
    /\ UNCHANGED client
    /\ UNCHANGED <<captureVars, bfVars, auxVars>>

\* the match on songrec's output: a decode error goes on to the retry, every
\* other outcome reports success and ends the loop body
SongrecOutput ==
    /\ client = "songrec"
    /\ cl_pc = "sent"
    /\ \E out \in Outputs :
          /\ cl_last' = [cl_last EXCEPT !.op = "response", !.status = out]
          /\ IF out = "decode_error"
             THEN /\ cl_pc' = "retry"
                  /\ UNCHANGED todo
                  /\ UNCHANGED rlVars
             ELSE /\ DoReportSuccess
                  /\ cl_pc' = "loop"
                  /\ todo' = todo - 1
    /\ UNCHANGED <<client, req_gap, waited>>
    /\ UNCHANGED <<captureVars, bfVars, auxVars>>

\* thread::sleep(30 s), then songrec runs again on the same segment
SongrecRetry ==
    /\ client = "songrec"
    /\ cl_pc = "retry"
    /\ elapsed' = Later(elapsed, RetrySleepMs)
    /\ SendRequest(Later(req_gap, RetrySleepMs), waited, cl_last.cached,
                   cl_last.sent + 1)
    /\ cl_pc' = "retried"
    /\ UNCHANGED <<client, todo>>
    /\ UNCHANGED <<last_request, current_interval, success_count, limiterConfig,
                   rl_last>>
    /\ UNCHANGED <<captureVars, bfVars, auxVars>>

\* the match on the retry's output ends the loop body
SongrecRetryOutput ==
    /\ client = "songrec"
    /\ cl_pc = "retried"
    /\ \E out \in Outputs :
          /\ cl_last' = [cl_last EXCEPT !.op = "retried", !.status = out]
          /\ IF AfterRetry(out) = "report_failure"
             THEN DoReportFailure ELSE DoReportSuccess
    /\ cl_pc' = "loop"
    /\ todo' = todo - 1
    /\ UNCHANGED <<client, req_gap, waited>>
    /\ UNCHANGED <<captureVars, bfVars, auxVars>>

\* time passes for the process that runs the loop
ClientElapse ==
    /\ client \in Clients
    /\ todo > 0
    /\ elapsed' = IF last_request = "Some" THEN Later(elapsed, base_interval)
                  ELSE elapsed
    /\ req_gap' = Later(req_gap, base_interval)
    /\ elapsed' # elapsed \/ req_gap' # req_gap
    /\ UNCHANGED <<last_request, current_interval, success_count, limiterConfig,
                   rl_last>>
    /\ UNCHANGED <<client, cl_pc, todo, waited, cl_last>>
    /\ UNCHANGED <<captureVars, bfVars, auxVars>>

\* ---------------------------------------------- boundary finder actions
finderInputs == <<rms_values, music_start_idx, music_end_idx, noise_floor,
                  min_song_duration, use_guided_detection, expected_tracks>>

\* process_file, pass 3 without a track list
FindSongBoundaries ==
    /\ bf_pc = "ready"
    /\ ~use_guided_detection
    /\ valleys' = find_song_boundaries(rms_values, Smoothed(rms_values),
                                       music_start_idx, music_end_idx,
                                       min_song_duration, noise_floor)
    /\ bf_pc' = "done"
    /\ UNCHANGED finderInputs
    /\ UNCHANGED <<captureVars, rlVars, clVars, auxVars>>

\* process_file, pass 3 with the release's track list
FindGuidedBoundaries ==
    /\ bf_pc = "ready"
    /\ use_guided_detection
    /\ valleys' = find_guided_boundaries(Smoothed(rms_values), expected_tracks,
                                         groove_in)
    /\ bf_pc' = "done"
    /\ UNCHANGED finderInputs
    /\ UNCHANGED <<captureVars, rlVars, clVars, auxVars>>

\* ------------------------------------------------ side assignment actions
notAssign == <<captureVars, rlVars, clVars, bfVars, fbVars, dmVars, sdVars, pdVars>>

\* lookup.rs: assign_files_to_album_sides
AssignFilesToAlbumSides ==
    /\ sa_pc = "ready"
    /\ assignments' = assign_files_to_sides(files, sides)
    /\ assigner' = "lookup"
    /\ sa_pc' = "done"
    /\ UNCHANGED <<files, sides>>
    /\ UNCHANGED notAssign

\* album_finder.rs: assign_files_to_sides
AssignFilesToSides ==
    /\ sa_pc = "ready"
    /\ assignments' = assign_files_to_sides(files, sides)
    /\ assigner' = "album_finder"
    /\ sa_pc' = "done"
    /\ UNCHANGED <<files, sides>>
    /\ UNCHANGED notAssign

\* album_finder.rs: find_via_musicbrainz
FindViaMusicbrainz ==
    /\ sa_pc = "ready"
    /\ assignments' = find_via_musicbrainz(files, sides)
    /\ assigner' = "musicbrainz"
    /\ sa_pc' = "done"
    /\ UNCHANGED <<files, sides>>
    /\ UNCHANGED notAssign

\* ------------------------------------------------ album resolver actions
notResolver == <<captureVars, rlVars, clVars, bfVars, saVars, dmVars, sdVars, pdVars>>

\* lookup.rs: find_album_side_with_fallback returns a result
FindAlbumSideWithFallback ==
    /\ fb_pc = "ready"
    /\ find_album_side_with_fallback(backends, side_found, mb_search) # NoResult
    /\ fb_result' = find_album_side_with_fallback(backends, side_found, mb_search)
    /\ fb_pc' = "done"
    /\ UNCHANGED <<backends, side_found, mb_search>>
    /\ UNCHANGED notResolver

\* lookup.rs: no backend found the album, Ok(None)
NoBackendMatched ==
    /\ fb_pc = "ready"
    /\ find_album_side_with_fallback(backends, side_found, mb_search) = NoResult
    /\ fb_result' = NoResult
    /\ fb_pc' = "unmatched"
    /\ UNCHANGED <<backends, side_found, mb_search>>
    /\ UNCHANGED notResolver

\* ------------------------------------------------ directory mode actions
notDirectory == <<captureVars, rlVars, clVars, bfVars, saVars, fbVars, sdVars, pdVars>>

\* process_file on a file that no longer exists: "File not found", return
ProcessMissingFile ==
    /\ dm_pc = "loop"
    /\ next_file <= Len(files_to_process)
    /\ files_to_process[next_file] = "missing"
    /\ next_file' = next_file + 1
    /\ UNCHANGED <<dm_pc, tool, files_to_process, processed, ended_by>>
    /\ UNCHANGED notDirectory

\* process_file on a well-formed file: analysed, cue sheet written
ProcessWavFile ==
    /\ dm_pc = "loop"
    /\ next_file <= Len(files_to_process)
    /\ files_to_process[next_file] = "ok"
    /\ processed' = processed \cup {next_file}
    /\ next_file' = next_file + 1
    /\ UNCHANGED <<dm_pc, tool, files_to_process, ended_by>>
    /\ UNCHANGED notDirectory

\* process_file on a file whose header is rejected: cue_creator prints
\* "Invalid WAV file" and calls process::exit(1), boundary_finder unwraps
\* the error and panics
ProcessMalformedFile ==
    /\ dm_pc = "loop"
    /\ next_file <= Len(files_to_process)
    /\ files_to_process[next_file] = "malformed"
    /\ dm_pc' = "exited"
    /\ ended_by' = IF tool = "cue_creator" THEN "exit(1)" ELSE "panic"
    /\ UNCHANGED <<tool, files_to_process, next_file, processed>>
    /\ UNCHANGED notDirectory

\* the loop is through: main returns
DirectoryDone ==
    /\ dm_pc = "loop"
    /\ next_file > Len(files_to_process)
    /\ dm_pc' = "done"
    /\ UNCHANGED <<tool, files_to_process, next_file, processed, ended_by>>
    /\ UNCHANGED notDirectory

\* ------------------------------------------- song detect scheduler actions
notScheduler == <<captureVars, rlVars, clVars, bfVars, saVars, fbVars, dmVars, pdVars>>

\* feed_audio: one second of audio is appended, the oldest beyond 15 s dropped
FeedAudio ==
    /\ sd_pc = "run"
    /\ pcm_buf' = MinOf(pcm_buf + 1, KeepSecs)
    /\ UNCHANGED <<sd_pc, since_detect, sd_result, detecting, ever_attempted,
                   det_thread, resets>>
    /\ UNCHANGED notScheduler

\* a second passes on last_detect's clock
SchedulerElapse ==
    /\ sd_pc = "run"
    /\ since_detect < DetectInterval
    /\ since_detect' = since_detect + 1
    /\ UNCHANGED <<sd_pc, pcm_buf, sd_result, detecting, ever_attempted,
                   det_thread, resets>>
    /\ UNCHANGED notScheduler

\* tick: a detection is launched when the interval has passed
Tick ==
    /\ sd_pc = "run"
    /\ since_detect >= DetectInterval
    /\ CanLaunch
    /\ Launch
    /\ UNCHANGED notScheduler

\* trigger_immediate: a detection is launched whatever the interval
TriggerImmediate ==
    /\ sd_pc = "run"
    /\ CanLaunch
    /\ Launch
    /\ UNCHANGED notScheduler

\* the detection thread: recognize_from_pcm returned Ok(res)
DetectionOk ==
    /\ sd_pc = "run"
    /\ det_thread # NoThread
    /\ sd_result' = Publish([some |-> TRUE, launched |-> det_thread])
    /\ detecting' = FALSE
    /\ det_thread' = NoThread
    /\ UNCHANGED <<sd_pc, pcm_buf, since_detect, ever_attempted, resets>>
    /\ UNCHANGED notScheduler

\* the detection thread: recognize_from_pcm returned Err, the result is kept
DetectionErr ==
    /\ sd_pc = "run"
    /\ det_thread # NoThread
    /\ detecting' = FALSE
    /\ det_thread' = NoThread
    /\ UNCHANGED <<sd_pc, pcm_buf, since_detect, sd_result, ever_attempted, resets>>
    /\ UNCHANGED notScheduler

\* reset: the buffer, the result and ever_attempted are cleared
SchedulerReset ==
    /\ sd_pc = "run"
    /\ resets < MaxResets
    /\ pcm_buf' = 0
    /\ sd_result' = [some |-> FALSE, launched |-> 0]
    /\ ever_attempted' = FALSE
    /\ resets' = resets + 1
    /\ UNCHANGED <<sd_pc, since_detect, detecting, det_thread>>
    /\ UNCHANGED notScheduler

\* ------------------------------------------- adaptive pause detector actions
notDetector == <<captureVars, rlVars, clVars, bfVars, saVars, fbVars, dmVars, sdVars>>

\* set_threshold_override
SetThresholdOverride ==
    /\ pd_state # "none"
    /\ \E threshold_db \in ThresholdOverrides :
          /\ threshold_override' = OptSome(threshold_db)
          /\ pause_threshold_db' = threshold_db
    /\ pd_last' = "set_threshold_override"
    /\ UNCHANGED <<pd_state, pd_noise_floor_db, pause_duration_ms, pause_duration_override,
                   song_durations, timeouts, detector_resets>>
    /\ UNCHANGED notDetector

\* set_pause_duration_override
SetPauseDurationOverride ==
    /\ pd_state # "none"
    /\ \E duration_ms \in DurationOverrides :
          /\ pause_duration_override' = OptSome(duration_ms)
          /\ pause_duration_ms' = duration_ms
    /\ pd_last' = "set_pause_duration_override"
    /\ UNCHANGED <<pd_state, pd_noise_floor_db, pause_threshold_db, threshold_override,
                   song_durations, timeouts, detector_resets>>
    /\ UNCHANGED notDetector

\* process_training: music has been present for 200 ms, training completes
\* with the median of the samples as the noise floor
TrainingComplete ==
    /\ pd_state = "Training"
    /\ \E current_noise_floor \in NoiseFloors :
          /\ pd_noise_floor_db' = current_noise_floor
          /\ pause_threshold_db' = ThresholdAfterTraining(current_noise_floor)
    /\ pd_state' = "Active"
    /\ pd_last' = "training_complete"
    /\ UNCHANGED <<pause_duration_ms, threshold_override, pause_duration_override,
                   song_durations, timeouts, detector_resets>>
    /\ UNCHANGED notDetector

\* process_active: a pause that was long enough ends, the song's duration
\* is recorded and adapt_parameters runs
SongBoundary ==
    /\ pd_state = "Active"
    /\ Len(song_durations) < MaxSongs
    /\ \E song_duration \in SongLengths :
          /\ song_durations' = Append(song_durations, song_duration)
          /\ pause_duration_ms' = adapt_parameters(Append(song_durations, song_duration))
    /\ pd_last' = "song_boundary"
    /\ UNCHANGED <<pd_state, pd_noise_floor_db, pause_threshold_db, threshold_override,
                   pause_duration_override, timeouts, detector_resets>>
    /\ UNCHANGED notDetector

\* process_active: no pause for 6 minutes, increase_sensitivity runs
PauseTimeout ==
    /\ pd_state = "Active"
    /\ timeouts < MaxTimeouts
    /\ pause_threshold_db' = increase_sensitivity
    /\ timeouts' = timeouts + 1
    /\ pd_last' = "pause_timeout"
    /\ UNCHANGED <<pd_state, pd_noise_floor_db, pause_duration_ms, threshold_override,
                   pause_duration_override, song_durations, detector_resets>>
    /\ UNCHANGED notDetector

\* reset: back to training with the default threshold and pause duration
DetectorReset ==
    /\ pd_state # "none"
    /\ detector_resets < MaxDetectorResets
    /\ pd_state' = "Training"
    /\ song_durations' = <<>>
    /\ pause_threshold_db' = DefaultThresholdDb
    /\ pause_duration_ms' = DefaultPauseMs
    /\ detector_resets' = detector_resets + 1
    /\ pd_last' = "reset"
    /\ UNCHANGED <<pd_noise_floor_db, threshold_override, pause_duration_override, timeouts>>
    /\ UNCHANGED notDetector

Next ==
    \/ WriteAudio
    \/ Close
    \/ Join
    \/ Advance
    \/ WorkerStart
    \/ WorkerWrite
    \/ WorkerStop
    \/ WorkerExit

Spec == Init /\ [][Next]_vars

SpecNumbering == InitNumbering /\ [][Next]_vars

NextVU == ProcessChunk

NextAuto ==
    \/ AutoTick
    \/ AutoClose
    \/ AutoAdvance
    \/ Join
    \/ WorkerStart
    \/ WorkerWrite
    \/ WorkerStop
    \/ WorkerExit

SpecAuto == InitAuto /\ [][NextAuto]_vars

NextStream ==
    \/ StreamStart
    \/ StreamStop
    \/ StopJoined
    \/ Capture
    \/ ChildExits
    \/ OrphanExits
    \/ ReadChunk
    \/ refill_buffer
    \/ FileDeliver

SpecStream == InitStreams /\ [][NextStream]_vars

NextLimiter ==
    \/ report_failure
    \/ report_success
    \/ wait_if_needed
    \/ LimiterElapse

SpecLimiter == InitLimiters /\ [][NextLimiter]_vars

NextClients ==
    \/ DiscogsRequest
    \/ DiscogsResponse
    \/ MusicBrainzSearch
    \/ MusicBrainzResult
    \/ SongrecSegment
    \/ SongrecOutput
    \/ SongrecRetry
    \/ SongrecRetryOutput
    \/ ClientElapse

SpecClients == InitClients /\ [][NextClients]_vars

InitFinders ==
    /\ NoCapture
    /\ from_millis(BaseMs)
    /\ NoClient
    /\ NoAux
    /\ InitFinder

NextFinder ==
    \/ FindSongBoundaries
    \/ FindGuidedBoundaries

SpecFinder == InitFinders /\ [][NextFinder]_vars

\* pass 3 without a track list
InitAutonomousFinder ==
    /\ NoCapture
    /\ from_millis(BaseMs)
    /\ NoClient
    /\ NoAux
    /\ InitAutonomous

NextAutonomous == FindSongBoundaries

SpecAutonomous == InitAutonomousFinder /\ [][NextAutonomous]_vars

\* pass 3 with a track list, on short files and on a long side
InitGuidedFinder ==
    /\ NoCapture
    /\ from_millis(BaseMs)
    /\ NoClient
    /\ NoAux
    /\ (InitTwoTracks \/ InitLongSide)

NextGuided == FindGuidedBoundaries

SpecGuided == InitGuidedFinder /\ [][NextGuided]_vars

InitAssigners ==
    /\ NoCapture
    /\ from_millis(BaseMs)
    /\ NoClient
    /\ NoFinder
    /\ NoResolver
    /\ NoDirectory
    /\ NoScheduler
    /\ NoDetector
    /\ InitAssign

NextAssign ==
    \/ AssignFilesToAlbumSides
    \/ AssignFilesToSides
    \/ FindViaMusicbrainz

SpecAssign == InitAssigners /\ [][NextAssign]_vars

InitResolvers ==
    /\ NoCapture
    /\ from_millis(BaseMs)
    /\ NoClient
    /\ NoFinder
    /\ NoAssign
    /\ NoDirectory
    /\ NoScheduler
    /\ NoDetector
    /\ InitResolver

NextResolver ==
    \/ FindAlbumSideWithFallback
    \/ NoBackendMatched

SpecResolver == InitResolvers /\ [][NextResolver]_vars

InitDirectories ==
    /\ NoCapture
    /\ from_millis(BaseMs)
    /\ NoClient
    /\ NoFinder
    /\ NoAssign
    /\ NoResolver
    /\ NoScheduler
    /\ NoDetector
    /\ InitDirectory

NextDirectory ==
    \/ ProcessMissingFile
    \/ ProcessWavFile
    \/ ProcessMalformedFile
    \/ DirectoryDone

SpecDirectory == InitDirectories /\ [][NextDirectory]_vars

InitSchedulers ==
    /\ NoCapture
    /\ from_millis(BaseMs)
    /\ NoClient
    /\ NoFinder
    /\ NoAssign
    /\ NoResolver
    /\ NoDirectory
    /\ NoDetector
    /\ InitScheduler

NextScheduler ==
    \/ FeedAudio
    \/ SchedulerElapse
    \/ Tick
    \/ TriggerImmediate
    \/ DetectionOk
    \/ DetectionErr
    \/ SchedulerReset

SpecScheduler == InitSchedulers /\ [][NextScheduler]_vars

InitDetectors ==
    /\ NoCapture
    /\ from_millis(BaseMs)
    /\ NoClient
    /\ NoFinder
    /\ NoAssign
    /\ NoResolver
    /\ NoDirectory
    /\ NoScheduler
    /\ InitDetector

NextDetector ==
    \/ SetThresholdOverride
    \/ SetPauseDurationOverride
    \/ TrainingComplete
    \/ SongBoundary
    \/ PauseTimeout
    \/ DetectorReset

SpecDetector == InitDetectors /\ [][NextDetector]_vars

SpecVU == InitVUMeter /\ [][NextVU]_vars

\* ======================================================================
\* Claims about the auto-recorder
\* ======================================================================
StopHandled == last.op \in {"stop_short", "stop_kept"}

\* C1 (as stated): the next-file ordinal changes only in a Stop step that
\* finalized the open WAV file successfully and whose recording passed
\* min_length.
C1_OrdinalOnlyAfterSuccessfulClose ==
    next_file_number # last.prev =>
        /\ last.op = "stop_kept"
        /\ last.fin
        /\ last.dur >= min_length
        /\ next_file_number = last.prev + 1

\* C1 (amended): the next-file ordinal changes only in a Stop step that took
\* an open writer and whose measured duration passed min_length, and then by
\* exactly one, whether or not finalize succeeded; Start, Write, a too-short
\* recording, a Stop with no open writer and the capture loop leave it alone.
C1_OrdinalOnlyAfterKeptStop ==
    /\ next_file_number # last.prev =>
          /\ last.op = "stop_kept"
          /\ last.dur >= min_length
          /\ next_file_number = last.prev + 1
    /\ last.op # "stop_kept" => next_file_number = last.prev

\* a recording that passed min_length was closed with a failing finalize and
\* the ordinal advanced
C1_Witness ==
    /\ last.op = "stop_kept"
    /\ ~last.fin
    /\ last.dur >= min_length
    /\ next_file_number = last.prev + 1

\* C2 (as stated): after a recording is closed, the file is gone and the
\* ordinal unchanged if the time between its first and last recorded sample is
\* below min_length; otherwise the file is there and the ordinal advanced.
\* (Stated for runs without I/O errors.)
C2_DecidedBySampleSpan ==
    (StopHandled /\ ioErrors = 0) =>
        IF last.span < min_length
        THEN ~disk[last.file].exists /\ next_file_number = last.prev
        ELSE disk[last.file].exists /\ next_file_number = last.prev + 1

\* C2 (amended): after a recording is closed, the decision rests on the time
\* between the writer thread's handling of Start and its handling of Stop:
\* below min_length the file is removed (it stays only if remove_file fails)
\* and the ordinal is unchanged; otherwise the file is kept and the ordinal
\* advances by one.
C2_DecidedByElapsedTime ==
    StopHandled =>
        IF last.dur < min_length
        THEN /\ last.op = "stop_short"
             /\ disk[last.file].exists = ~last.rm
             /\ next_file_number = last.prev
        ELSE /\ last.op = "stop_kept"
             /\ disk[last.file].exists
             /\ next_file_number = last.prev + 1

\* a recording shorter than min_length was closed and its file removed
C2_Witness ==
    /\ last.op = "stop_short"
    /\ last.dur < min_length
    /\ last.rm
    /\ ~disk[last.file].exists
    /\ next_file_number = last.prev

\* C3: once the recorder is closed, every file the writer opened that is still
\* on disk declares in its header exactly its data byte length. (Stated for
\* runs without I/O errors.)
C3_HeaderMatchesData ==
    (mainPc = "closed" /\ ioErrors = 0) =>
        \A n \in opened : disk[n].exists => disk[n].hdr = DataBytes(disk[n])

\* C4: every file the recorder opens carries an ordinal N >= 1, and no file
\* that existed at process start is ever opened for writing.
C4_NoExistingFileOpened ==
    /\ \A n \in opened : n >= 1
    /\ opened \cap existing = {}

\* sample a was passed to write_audio before sample b
PassedBefore(a, b) ==
    \/ a[1] < b[1]
    \/ a[1] = b[1] /\ a[2] < b[2]
    \/ a[1] = b[1] /\ a[2] = b[2] /\ a[3] < b[3]

\* C5: the samples of every recording file are in the order in which the
\* capture loop passed them to write_audio: chunk after chunk, frame after
\* frame, and within a frame channel after channel.
C5_CaptureOrder ==
    \A n \in opened :
        \A i \in 1..Len(disk[n].data), j \in 1..Len(disk[n].data) :
            i < j => PassedBefore(disk[n].data[i], disk[n].data[j])

\* a recording file holds the samples of more than one chunk
C5_Witness ==
    \E n \in opened :
        /\ disk[n].exists
        /\ Len(disk[n].data) >= 2 * FramesPerChunk * Channels

\* C9: as long as no write_audio call had is_on = true, the recorder has
\* created no file (the disk holds exactly the files of process start), sent
\* no command and is not recording.
C9_NoSignalNoFile ==
    ~everOn =>
        /\ opened = {}
        /\ \A n \in Ordinals : disk[n].exists <=> n \in existing
        /\ queue = <<>>
        /\ ~recording

\* a whole run of off ticks, closed
C9_Witness ==
    /\ ~everOn
    /\ calls = MaxCalls
    /\ mainPc = "closed"

\* ======================================================================
\* Claims about the VU meter
\* ======================================================================
\* the last n values of a sequence (all of it when it is shorter)
LastN(h, n) == IF Len(h) <= n THEN h ELSE SubSeq(h, Len(h) - n + 1, Len(h))

Fed(ch) == fed[ch]
Latest(ch) == fed[ch][Len(fed[ch])]
SilenceWindow == silence_duration \div update_interval

\* C6: after every chunk, a channel's is_on is true if and only if at least
\* one of the last N RMS values fed to the channel exceeded off_threshold,
\* where N = silence_duration / update_interval (rounded down).
C6_IsOnIffWindowHasSignal ==
    \A ch \in 1..Channels :
        Len(Fed(ch)) >= 1 =>
            (metrics[ch].is_on <=>
                \E i \in 1..Len(LastN(Fed(ch), SilenceWindow)) :
                    LastN(Fed(ch), SilenceWindow)[i] > off_threshold)

\* the window has slid past the first values and is_on is held by an older
\* value while the latest one is at or below the threshold
C6_Witness ==
    \E ch \in 1..Channels :
        /\ Len(Fed(ch)) > SilenceWindow
        /\ SilenceWindow >= 2
        /\ metrics[ch].is_on
        /\ Latest(ch) <= off_threshold

\* C7 (as stated): if is_on was true after the previous chunk, one chunk at or
\* below off_threshold leaves it true.
C7_OneQuietChunkKeepsOn ==
    \A ch \in 1..Channels :
        (Len(Fed(ch)) >= 2 /\ prev_on[ch] /\ Latest(ch) <= off_threshold)
            => metrics[ch].is_on

\* C7 (amended): is_on goes from true to false only when the whole window,
\* the last N values with the current one, is at or below off_threshold; so
\* with N >= 2 a chunk at or below the threshold that directly follows a chunk
\* above it leaves is_on true.
C7_OffOnlyAfterWholeWindow ==
    \A ch \in 1..Channels :
        /\ (prev_on[ch] /\ ~metrics[ch].is_on) =>
              /\ Len(Fed(ch)) > SilenceWindow
              /\ \A i \in 1..SilenceWindow :
                    Fed(ch)[Len(Fed(ch)) - i + 1] <= off_threshold
              /\ Fed(ch)[Len(Fed(ch)) - SilenceWindow] > off_threshold
        /\ (/\ SilenceWindow >= 2
            /\ Len(Fed(ch)) >= 2
            /\ Fed(ch)[Len(Fed(ch)) - 1] > off_threshold
            /\ Latest(ch) <= off_threshold) => metrics[ch].is_on

\* with a window of at least two chunks, is_on has just gone from true to false
C7_Witness ==
    \E ch \in 1..Channels :
        /\ SilenceWindow >= 2
        /\ prev_on[ch]
        /\ ~metrics[ch].is_on

\* ======================================================================
\* Claims about the autorecord loop (SpecAuto)

\* the run is over and no file operation failed
AutoRunOver == mainPc = "closed" /\ ioErrors = 0

NoSurvivingFile == \A n \in Ordinals : ~disk[n].exists

\* the time unit at which is_on first goes false again, or the end of the
\* source if the silence window outlasts the silence
AutoStopTime ==
    IF onLen + SilenceWindow <= onLen + offLen
    THEN onLen + SilenceWindow
    ELSE onLen + offLen

\* C8 as stated: with min_length = 10, 5 units of signal followed by 15 units
\* of silence leave no WAV file and leave the ordinal at its start value
\* (whatever silence_duration is, the default of 10 included).
C8_ShortAndDelete ==
    (AutoRunOver /\ onLen = 5 /\ offLen = 15 /\ min_length = 10) =>
        /\ NoSurvivingFile
        /\ next_file_number = 1

\* C8 as the code behaves: the recording opened by the first chunk of signal
\* lasts until is_on goes false, that is through the signal and the silence
\* window; it is deleted, and the ordinal kept, iff that length (signal +
\* window - one interval) is below min_length, and otherwise it survives as
\* file 1 and the ordinal advances to 2.
C8_DeletedIffSignalPlusWindowShort ==
    (AutoRunOver /\ onLen >= 1) =>
        IF AutoStopTime - 1 < min_length
        THEN NoSurvivingFile /\ next_file_number = 1
        ELSE /\ disk[1].exists
             /\ \A n \in Ordinals \ {1} : ~disk[n].exists
             /\ next_file_number = 2

\* 5 units of signal, silence_duration = 10 = min_length: the file is kept
C8_Witness ==
    /\ AutoRunOver
    /\ onLen = 5 /\ offLen >= 15 /\ silence_duration = 10
    /\ min_length = silence_duration
    /\ disk[1].exists
    /\ next_file_number = 2

\* ======================================================================
\* Claims about the audio input streams (SpecStream)

ReadReturned == rd.result \in {"Some", "None"}

\* C10 as stated: for every variant, a read_chunk call returns nothing if and
\* only if the stream was stopped or the source had reached its end.
C10_NothingIffStoppedOrEof ==
    ReadReturned => (rd.result = "None" <=> (rd.stopped \/ rd.eof))

\* C10 as the code behaves: read_chunk returns nothing on a stopped stream;
\* on a started stream it returns nothing exactly when, for PipeWire, fewer
\* than the requested frames are buffered after the wait, for the pw-record
\* and arecord pipes, the child's output ended before a whole chunk, and for a
\* file, a packet failed to decode or the file could not be reopened at its
\* end (reaching the end of the file restarts it and is not by itself nothing).
C10_NothingIffStoppedOrStarved ==
    ReadReturned =>
        (rd.result = "None" <=>
            \/ rd.stopped
            \/ variant = "pipewire" /\ rd.have < ChunkFrames
            \/ variant \in Pipes /\ rd.eof /\ rd.have < ChunkFrames
            \/ variant = "file" /\ rd.fault \in {"decode", "reopen"})

\* a started PipeWire stream whose thread is capturing returned nothing
C10_Witness ==
    /\ variant = "pipewire"
    /\ active /\ thread_handle = "running"
    /\ rd.result = "None" /\ ~rd.stopped

\* C11: start takes a stream only from inactive to active; start on a stream
\* that is already active starts no second capture thread or capture process,
\* so at most one capture thread or child of the stream runs at any time.
C11_NoSecondCapture == live <= 1

\* C12: once stop has been called on a started PipeWire source, the capture
\* thread observes the quit flag and returns, so the stop that waits in
\* handle.join() can complete. (No step of the capture thread reads quit_flag:
\* a thread that is in main_loop.run() stays there.)
C12_StopCanComplete ==
    (variant = "pipewire" /\ stPc = "joining" /\ quit_flag) => ENABLED StopJoined

\* ======================================================================
\* Claims about the rate limiter (SpecLimiter)

Smaller(a, b) == IF a <= b THEN a ELSE b
Larger(a, b) == IF a >= b THEN a ELSE b

\* C13: report_failure sets current_interval to twice its previous value,
\* capped at max_interval, and resets the success counter to zero.
C13_FailureDoublesUpToMax ==
    rl_last.op = "report_failure" =>
        /\ current_interval = Smaller(2 * rl_last.interval, max_interval)
        /\ success_count = 0

\* a failure that hit the ceiling
C13_Witness ==
    /\ rl_last.op = "report_failure"
    /\ 2 * rl_last.interval > max_interval
    /\ current_interval = max_interval
    /\ rl_last.count > 0

\* what C14 says a report_success call does, from the state before it
SuccessCountedAndReduced ==
    LET counted == rl_last.count + 1 IN
    IF counted >= successes_to_reduce /\ rl_last.interval > base_interval
    THEN /\ current_interval = Larger(rl_last.interval \div 2, base_interval)
         /\ success_count = 0
    ELSE /\ current_interval = rl_last.interval
         /\ success_count = counted

\* C14 as stated: every report_success increments the success counter and,
\* once it reaches successes_to_reduce while current_interval > base_interval,
\* halves current_interval (not below base_interval) and resets the counter.
C14_SuccessCountsAndHalves ==
    rl_last.op = "report_success" => SuccessCountedAndReduced

\* C14 as the code behaves: that holds for a limiter whose successes_to_reduce
\* is not 0; with successes_to_reduce = 0 report_success changes nothing,
\* the counter included.
C14_SuccessCountsUnlessDisabled ==
    rl_last.op = "report_success" =>
        IF successes_to_reduce = 0
        THEN current_interval = rl_last.interval /\ success_count = rl_last.count
        ELSE SuccessCountedAndReduced

\* a from_millis(1000) limiter at 8000 ms whose 10th success in a row brings
\* it to 4000 ms
C14_Witness ==
    /\ rl_last.op = "report_success"
    /\ base_interval = 1000 /\ max_interval = 16000 /\ successes_to_reduce = 10
    /\ rl_last.interval = 8000 /\ rl_last.count = 9
    /\ current_interval = 4000 /\ success_count = 0

\* C15: wait_if_needed returns only when at least current_interval has
\* elapsed since the last recorded request, if there is one, and it then
\* records the time of its return as the last request.
C15_WaitsOutTheInterval ==
    rl_last.op = "wait_if_needed" =>
        /\ rl_last.had_last => rl_last.returned_after >= rl_last.interval
        /\ last_request = "Some"
        /\ elapsed = 0

\* a wait on a backed-off limiter that returned just as the interval was over
C15_Witness ==
    /\ rl_last.op = "wait_if_needed"
    /\ rl_last.had_last
    /\ rl_last.interval > base_interval
    /\ rl_last.returned_after = rl_last.interval

\* ======================================================================
\* Claims about the clients of the external services
\* ======================================================================

\* C16: every outbound request to an external service is preceded by the
\* rate limiter's wait, so two consecutive requests of one process to the
\* same service are at least the service's interval apart.
\* (the first request of a process has no predecessor to be spaced from)
C16_RequestsSpacedByWait ==
    (cl_last.op = "request" /\ cl_last.gap # NoTime) =>
       cl_last.gap >= base_interval

\* a failed request to a metadata service has been handled
FailedMetadataRequest ==
    /\ client \in {"discogs", "musicbrainz"}
    /\ cl_last.op = "response"
    /\ cl_last.status \in {"429", "500"}

\* C17: when a request to a metadata service fails with a 429 or a 5xx
\* response, report_failure is applied: the limiter's interval is the doubled
\* (capped) interval, so the next request waits longer.
C17_FailureBacksOff ==
    FailedMetadataRequest =>
       /\ current_interval = DoubledInterval(cl_last.interval, max_interval)
       /\ current_interval > cl_last.interval \/ cl_last.interval = max_interval

\* the identifier has finished a segment whose first run reported a decode error
RetryHandled == client = "songrec" /\ cl_last.op = "retried"

\* C18: after a decode error the identifier sleeps 30 s, runs the segment
\* exactly once more, and applies report_failure whatever the retry returned:
\* two requests for the segment, the second at least 30 s after the first,
\* the interval doubled (capped), the success counter reset, the segment done.
C18_DecodeErrorRetriedOnceThenBackoff ==
    RetryHandled =>
       /\ cl_last.sent = 2
       /\ cl_last.gap >= RetrySleepMs
       /\ rl_last.op = "report_failure"
       /\ current_interval = DoubledInterval(cl_last.interval, max_interval)
       /\ success_count = 0
       /\ cl_pc = "loop"

\* a retry that found the song, after which the 5 s interval is 10 s
C18_Witness ==
    /\ RetryHandled
    /\ cl_last.status = "match"
    /\ cl_last.interval = SongrecSecs * MsPerSec
    /\ current_interval = 2 * SongrecSecs * MsPerSec
    /\ cl_last.gap >= RetrySleepMs

\* C19: when a segment's hash is in the songrec cache, the identifier makes no
\* call to the fingerprint backend for that segment.
C19_CacheHitSkipsBackend ==
    (client = "songrec" /\ cl_last.op = "request") => ~cl_last.cached

\* ======================================================================
\* Claims about the boundary finder
\* ======================================================================

\* the positions pass 3 returned, in the order returned
Positions == [k \in 1..Len(valleys) |-> valleys[k].position_seconds]

StrictlyIncreasing(ps) == \A k \in 1..(Len(ps) - 1) : ps[k] < ps[k + 1]

InsideGroove(ps) == \A k \in 1..Len(ps) : groove_in < ps[k] /\ ps[k] < groove_out

\* C20: the valley positions the boundary finder emits, in autonomous and in
\* guided mode, are strictly increasing and lie strictly between groove_in
\* and groove_out.
C20_ValleysIncreasingInsideGroove ==
    bf_pc = "done" => StrictlyIncreasing(Positions) /\ InsideGroove(Positions)

\* the same for the autonomous mode alone
AutonomousValleysIncreasingInsideGroove ==
    (bf_pc = "done" /\ ~use_guided_detection) =>
        StrictlyIncreasing(Positions) /\ InsideGroove(Positions)

\* the candidates pass 3 found in the music region, before any filter
FoundCandidates ==
    LET len == MinOf(music_end_idx, Len(rms_values))
    IN IF len <= music_start_idx + MinRegionChunks THEN <<>>
       ELSE Candidates(Smoothed(rms_values),
                       smooth_rms(rms_values, MaxOf(long_window, 3)),
                       music_start_idx, len, music_start_idx + search_radius,
                       SatSub(len, search_radius))

\* two entries of a sequence of valleys lie less than d seconds apart
SomeCloserThan(vs, d) ==
    \E j, k \in 1..Len(vs) :
        j # k /\ Distance(vs[j].position_seconds, vs[k].position_seconds) < d

\* C21: after the filters of find_song_boundaries, no two returned valleys
\* lie less than min_song_duration seconds from each other.
C21_ValleysApart ==
    (bf_pc = "done" /\ ~use_guided_detection) =>
        ~SomeCloserThan(valleys, min_song_duration)

\* two valleys were returned although two candidates were too close
C21_Witness ==
    /\ bf_pc = "done"
    /\ ~use_guided_detection
    /\ Len(valleys) >= 2
    /\ SomeCloserThan(FoundCandidates, min_song_duration)

\* the depth a valley has to reach: noise_floor_db - 5.0
depth_threshold == noise_floor - DepthMarginDb

SingleShallowValleyReturned ==
    /\ bf_pc = "done"
    /\ ~use_guided_detection
    /\ Len(FoundCandidates) = 1
    /\ Len(valleys) = 1
    /\ valleys[1].depth_db > depth_threshold

\* the expected boundaries: the starts of the tracks after the first
ExpectedBoundaries == 1..(Len(expected_tracks) - 1)

\* the search window of expected boundary i holds a chunk of the file
WindowHasChunk(i) ==
    LET expected_pos == groove_in + At(expected_tracks, i).expected_start
    IN \E j \in 0..(Len(rms_values) - 1) :
           /\ timestamps(j) >= expected_pos - SearchWindowSecs
           /\ timestamps(j) <= expected_pos + SearchWindowSecs

GuidedDone == bf_pc = "done" /\ use_guided_detection

\* C23 as stated: guided detection returns exactly len(expected) - 1
\* boundaries, whatever the curve and the track list.
C23_GuidedOnePerExpectedBoundary ==
    GuidedDone => Len(valleys) = Len(expected_tracks) - 1

\* C23: guided detection returns one boundary for each expected track
\* boundary whose search window of +-10 s holds a chunk of the file, whatever
\* the RMS curve looks like: len(expected) - 1 boundaries when every window
\* does, fewer otherwise.
C23_GuidedOnePerSearchableBoundary ==
    GuidedDone =>
        Len(valleys) = Cardinality({i \in ExpectedBoundaries : WindowHasChunk(i)})

\* a side whose last expected boundary lies more than 10 s past the file's
\* last chunk: no boundary is returned for it
C23_Witness ==
    /\ GuidedDone
    /\ \E i \in ExpectedBoundaries : ~WindowHasChunk(i)
    /\ Len(valleys) < Len(expected_tracks) - 1

\* ======================================================================
\* Claims about the side assignment
\* ======================================================================

\* C24: after the greedy assignment, two distinct assigned files carry
\* different side labels: no side is assigned to more than one file.
C24_AssignedSidesDistinct ==
    sa_pc = "done" =>
        \A j, k \in 1..Len(assignments) :
            (assignments[j].fi # assignments[k].fi) =>
                /\ assignments[j].label # assignments[k].label
                /\ assignments[j].si # assignments[k].si

\* two files were assigned, and both scored best with the same side
C24_Witness ==
    /\ sa_pc = "done"
    /\ Len(assignments) = 2
    /\ score_file_vs_side(files[1], sides[1]) > score_file_vs_side(files[1], sides[2])
    /\ score_file_vs_side(files[2], sides[1]) > score_file_vs_side(files[2], sides[2])

\* C27: the greedy assignment stops as soon as the best remaining score is
\* <= 0: no file is assigned to a side with which its score is zero or
\* negative.
C27_NoAssignmentAtZeroScore ==
    sa_pc = "done" => \A k \in 1..Len(assignments) : assignments[k].score > 0

\* the same for the two functions that break out of the loop
BreakingLoopsAssignNoZeroScore ==
    (sa_pc = "done" /\ assigner # "musicbrainz") =>
        \A k \in 1..Len(assignments) : assignments[k].score > 0

\* ======================================================================
\* Claims about the album resolver
\* ======================================================================

\* the releases backend j looks at when it is asked for durations
Offered(j) ==
    IF backends[j] = "Discogs" \/ mb_search.kind = "err" THEN <<>>
    ELSE candidates(backends[j], mb_search.results)

\* release r of those is a non-empty list with a non-zero total duration
GoodList(j, r) ==
    /\ Offered(j)[r].side.kind = "some"
    /\ Offered(j)[r].side.tracks # <<>>
    /\ total_dur(Offered(j)[r].side.tracks) > 0

\* backend j, another one than the winner, has such a list
CanEnrich(j) == j # fb_result.backend /\ \E r \in 1..Len(Offered(j)) : GoodList(j, r)

\* the winning backend's own track list lacks usable durations
LacksDurations ==
    /\ fb_pc = "done"
    /\ ~has_usable_durations(side_found[fb_result.backend].tracks)

\* C28: when the result of the first backend that finds the album lacks
\* usable durations, the track list is taken from the first other backend,
\* in configured order, that has a non-empty list with non-zero total
\* duration; backends whose lists are empty or all zero are passed over, and
\* without such a backend the track list stays as found.
C28_DurationsFromFirstUsableBackend ==
    LacksDurations =>
        LET able == {j \in 1..Len(backends) : CanEnrich(j)}
        IN IF able = {}
           THEN /\ fb_result.durations_from = 0
                /\ fb_result.tracks = side_found[fb_result.backend].tracks
           ELSE LET j == CHOOSE a \in able : \A b \in able : a <= b
                    r == CHOOSE a \in 1..Len(Offered(j)) :
                            /\ GoodList(j, a)
                            /\ \A b \in 1..Len(Offered(j)) : GoodList(j, b) => a <= b
                IN /\ fb_result.durations_from = j
                   /\ fb_result.tracks = Offered(j)[r].side.tracks

\* Discogs found the album without durations, the vinyl search was offered
\* an all-zero list first, and the durations come from a later release
C28_Witness ==
    /\ LacksDurations
    /\ fb_result.backend = 1
    /\ backends[1] = "Discogs"
    /\ fb_result.durations_from = 2
    /\ Len(Offered(2)) = 2
    /\ Offered(2)[1].side = Found(<<0, 0>>)
    /\ has_usable_durations(fb_result.tracks)

\* ======================================================================
\* Claims about the directory mode
\* ======================================================================

\* a well-formed file was left unprocessed behind a malformed one
LeftBehindMalformed ==
    /\ RunEnded
    /\ \E j, k \in 1..Len(files_to_process) :
          /\ j < k
          /\ files_to_process[j] = "malformed"
          /\ files_to_process[k] = "ok"
          /\ k \notin processed

\* C25: in directory mode a WAV file with a malformed header is fatal only
\* for that file: it is skipped and the run goes on with the next file, so
\* when the run is over every well-formed file has been processed.
C25_MalformedFileOnlySkipped ==
    RunEnded => \A k \in 1..Len(files_to_process) :
                    files_to_process[k] = "ok" => k \in processed

\* ======================================================================
\* Claims about the recorder's chunks
\* ======================================================================

\* C26: while the input is on, every chunk passed to write_audio is written
\* to the current recording file: with no I/O error, the writer thread never
\* discards a Write command, whatever the interleaving of the capture loop
\* and the writer thread.
C26_NoChunkDiscarded ==
    ioErrors = 0 => last.op # "write_dropped"

\* the writer thread discarded a chunk with no I/O error in the run
ChunkDiscarded ==
    /\ ioErrors = 0
    /\ last.op = "write_dropped"

\* ======================================================================
\* Claims about the song detect scheduler
\* ======================================================================

\* C29: after reset, last_result stays empty until a detection launched
\* after that reset completes: the result on display was never produced by
\* a detection that was launched before the last reset.
C29_NoResultFromBeforeReset ==
    sd_result.some => sd_result.launched = resets

\* a detection launched before a reset published its result after it
StaleResultPublished ==
    /\ sd_result.some
    /\ sd_result.launched < resets
    /\ ~detecting

\* ======================================================================
\* Claims about the adaptive pause detector
\* ======================================================================

\* C30: once set_threshold_override or set_pause_duration_override has been
\* called, the effective threshold or pause duration equals the overridden
\* value in every later state, through training completion, adaptation,
\* sensitivity increase and reset.
C30_OverridesStayInForce ==
    /\ threshold_override.some => pause_threshold_db = threshold_override.v
    /\ pause_duration_override.some => pause_duration_ms = pause_duration_override.v

\* training completed and replaced the user's threshold
OverrideLostInTraining ==
    /\ pd_last = "training_complete"
    /\ threshold_override.some
    /\ pause_threshold_db # threshold_override.v

\* reset replaced the user's pause duration by the default
OverrideLostInReset ==
    /\ pd_last = "reset"
    /\ pause_duration_override.some
    /\ pause_duration_ms # pause_duration_override.v

\* adaptation and the sensitivity increase leave an override in force alone
AdaptationKeepsOverrides ==
    [][(pd_last' \in {"song_boundary", "pause_timeout"}) =>
          /\ (threshold_override.some => pause_threshold_db' = pause_threshold_db)
          /\ (pause_duration_override.some => pause_duration_ms' = pause_duration_ms)]_vars

====
